---- MODULE Spec2Model ----
(***************************************************************************)
(* A state-machine model of parts of the Mononoke sources:                 *)
(*   - the filelog delta resolver (convert_to_revlog_filelog, DeltaCache), *)
(*     Filelog::upload and compute_delta of                                *)
(*     bundle2-resolver/src/changegroup/filelog.rs;                        *)
(*   - getbundle / create_bundle, between / ParentStream, hello and known  *)
(*     of server/src/repo.rs;                                              *)
(*   - run_blobimport of cmds/blobimport/main.rs.                          *)
(* Each part has its own specification over the shared variables; the      *)
(* variables of the other parts stay at their initial values.              *)
(***************************************************************************)
EXTENDS Integers, Sequences, FiniteSets, TLC

(***************************************************************************)
(* Bounds of the model.                                                    *)
(***************************************************************************)
\* NodeHash values are 0..MaxNode.
MaxNode == 3
\* A changegroup stream holds at most MaxRecords records.
MaxRecords == 3

(***************************************************************************)
(* mercurial_types: NodeHash, Option, RepoPath, Delta.                     *)
(***************************************************************************)
NULL_HASH == 0
ONES_HASH == 1
TWOS_HASH == 2
THREES_HASH == 3

NodeHash == 0..MaxNode

None == [tag |-> "None"]
Some(v) == [tag |-> "Some", val |-> v]

\* NodeHash::into_option: NULL_HASH is None, every other hash h is Some(h).
into_option(h) == IF h = NULL_HASH THEN None ELSE Some(h)

\* Option::unwrap_or.
unwrap_or(o, d) == IF o.tag = "Some" THEN o.val ELSE d

\* RepoPath::file(path): the File variant around a (valid) MPath.
RepoPath_file(path) == [variant |-> "File", mpath |-> path]

\* Fragment { start, end, content }.
Fragment(s, e, c) == [start |-> s, end |-> e, content |-> c]

\* Delta::new_fulltext(bytes): the single fragment {0, 0, bytes}.
new_fulltext(bytes) == << Fragment(0, 0, bytes) >>

\* delta::apply(text, delta): walk the fragments in order, copy
\* text[off..frag.start], append frag.content, continue at frag.end; finish
\* with text[off..].
RECURSIVE apply_from(_, _, _, _)
apply_from(text, delta, k, off) ==
    IF k > Len(delta)
    THEN SubSeq(text, off + 1, Len(text))
    ELSE SubSeq(text, off + 1, delta[k].start) \o delta[k].content
             \o apply_from(text, delta, k + 1, delta[k].end)

apply(text, delta) == apply_from(text, delta, 1, 0)

(***************************************************************************)
(* The inputs of the resolver.                                             *)
(***************************************************************************)
\* The deltas of the records: full-text deltas, which apply to every base
\* (their only fragment is {0, 0, content}).
Deltas == { new_fulltext(<< >>), new_fulltext(<< 1 >>) }

\* path, p1, p2 and linknode of a record.
MetaSet ==
    { [path |-> "test",  p1 |-> NULL_HASH, p2 |-> TWOS_HASH, linknode |-> THREES_HASH],
      [path |-> "test2", p1 |-> ONES_HASH, p2 |-> NULL_HASH, linknode |-> NULL_HASH] }

\* CgDeltaChunk { node, base, delta, p1, p2, linknode }.
CgDeltaChunk(node, base, delta, p1, p2, linknode) ==
    [node |-> node, base |-> base, delta |-> delta,
     p1 |-> p1, p2 |-> p2, linknode |-> linknode]

\* FilelogDeltaed { path, chunk }.
FilelogDeltaed(path, chunk) == [path |-> path, chunk |-> chunk]

DeltaedSet ==
    { FilelogDeltaed(m.path, CgDeltaChunk(n, b, d, m.p1, m.p2, m.linknode)) :
        n \in NodeHash, b \in NodeHash, d \in Deltas, m \in MetaSet }

\* Filelog { path, node, p1, p2, linknode, blob }.
Filelog(path, node, p1, p2, linknode, blob) ==
    [path |-> path, node |-> node, p1 |-> p1, p2 |-> p2,
     linknode |-> linknode, blob |-> blob]

\* The file contents of a repository: BlobRepo::new_memblob_empty has none;
\* the other repository holds, for every node n, the one-byte content 10 + n.
EmptyRepo == << >>
FullRepo == [n \in NodeHash |-> << 10 + n >>]

\* The streams resolved side by side (each has a DeltaCache of its own).
Streams == {1, 2}

VARIABLES
    repo,         \* BlobRepo: node -> file content
    deltaed,      \* deltaed[s]: the input stream of s (FilelogDeltaed records)
    consumed,     \* consumed[s]: records and_then has taken from the input
    bytes_cache,  \* bytes_cache[s]: DeltaCache.bytes_cache, node -> shared future
    wait,         \* wait[s]: the record whose future and_then awaits (0: none)
    filelogs,     \* filelogs[s]: the Filelogs collect() has gathered
    result,       \* result[s]: what collect().wait() returns
    fetches,      \* calls of repo.get_file_content: [stream, rec, base]
    applied,      \* executions of delta::apply: [stream, rec, node]
    lookups,      \* bytes_cache.get(&base) calls: [stream, rec, base]
    stats         \* calls of STATS::..add_value: [dsize, fsize]

resolver_vars == << repo, deltaed, consumed, bytes_cache, wait, filelogs, result,
                    fetches, applied, lookups, stats >>

\* getbundle (server/src/repo.rs 106-147, 255-262).
VARIABLES
    bookmarks,    \* the bookmarks store: name -> hash
    gb_args,      \* args.listkeys of the getbundle call
    gb_pc,        \* "called", "items" (the encoder drains items), "done"
    gb_keys,      \* the names bookmarks.keys() has still to yield
    gb_get,       \* the future and_then awaits: None, a get, or future::empty()
    gb_bundle,    \* the bundle under construction
    gb_result,    \* what the getbundle future resolved to
    gb_dropped,   \* names whose lookup returned None
    gb_opened     \* how often the bookmarks store was opened

bundle_vars == << bookmarks, gb_args, gb_pc, gb_keys, gb_get, gb_bundle,
                  gb_result, gb_dropped, gb_opened >>

\* between (server/src/repo.rs 152-219).
VARIABLES
    bt_pairs,     \* the pairs of the between call
    bt_pc,        \* "next" (the outer and_then takes a pair), "walk", "done"
    bt_idx,       \* the pairs taken so far
    ps_n,         \* ParentStream.n
    ps_bottom,    \* ParentStream.bottom
    ps_wait_cs,   \* ParentStream.wait_cs: None or the changeset fetch in flight
    enum_i,       \* the counter of enumerate()
    filter_f,     \* f, the captured state of the filter closure
    bt_cur,       \* what the inner collect() has gathered for the pair
    bt_out,       \* what the outer collect() has gathered
    bt_result,    \* what the between future resolved to
    bt_raw,       \* the elements ParentStream has emitted for the pair
    bt_raws,      \* the raw chains of the pairs done
    cs_fetches    \* calls of get_changeset_by_nodeid: the nodes, in order

between_vars == << bt_pairs, bt_pc, bt_idx, ps_n, ps_bottom, ps_wait_cs, enum_i,
                   filter_f, bt_cur, bt_out, bt_result, bt_raw, bt_raws, cs_fetches >>

\* The batch uploader over Filelog::upload (filelog.rs 44-57).
VARIABLES
    up_batch,     \* the Filelogs of the batch
    up_idx,       \* the Filelogs uploaded so far
    up_map,       \* the uploader's map: key (node, path) -> shared future
    up_writes,    \* the writes repo.upload_entry has scheduled, in order
    up_result     \* what the batch resolved to

upload_vars == << up_batch, up_idx, up_map, up_writes, up_result >>

\* hello and known (server/src/repo.rs 243-252, 265-274).
VARIABLES
    hl_order,     \* the order in which the capability HashMap iterates
    hl_result,    \* what the hello future resolved to
    kn_nodes,     \* the nodes of the known call
    kn_pc,        \* "called", "joining", "done"
    kn_futs,      \* the changeset_exists futures handed to join_all
    kn_result,    \* what the known future resolved to
    kn_completed  \* the positions of the checks, in the order they completed

commands_vars == << hl_order, hl_result, kn_nodes, kn_pc, kn_futs, kn_result,
                    kn_completed >>

\* blobimport (cmds/blobimport/main.rs 108-179, 202-253, 325-393).
VARIABLES
    blobtype,       \* BlobstoreType: "Files", "Rocksdb" or "Manifold"
    channel_size,   \* the bound of the channel and of buffer_unordered
    im_entries,     \* the entries the conversion produces, in order
    im_sent,        \* the entries the conversion has sent
    im_pc,          \* main thread: "headstore", "spawn", "open_repo",
                    \* "convert", "join", "done"
    im_res,         \* res: what convert_context.convert() returned
    im_result,      \* what run_blobimport returned
    im_exit,        \* the exit status of the process (None while it runs)
    sender_alive,   \* the Sender of the channel has not been dropped
    recv_alive,     \* the Receiver of the channel has not been dropped
    chan,           \* the entries queued in the channel
    io_pc,          \* iothread: "unborn", "opening", "running", "done"
    io_result,      \* what the iothread closure returned
    io_seen,        \* inserted_manifest_entries
    io_queue,       \* the futures buffer_unordered holds
    io_stream_done, \* receiverstream has ended
    io_taken,       \* the entries the iothread has received, in order
    io_ops,         \* the blobstore.put and bcs.save calls made, in order
    im_failed       \* the steps that have failed

import_vars == << blobtype, channel_size, im_entries, im_sent, im_pc, im_res,
                  im_result, im_exit, sender_alive, recv_alive, chan, io_pc,
                  io_result, io_seen, io_queue, io_stream_done, io_taken, io_ops,
                  im_failed >>

\* compute_delta and the delta round trip (filelog.rs 290-335, 428-431).
VARIABLES
    cd_b1,        \* b1
    cd_b2,        \* b2
    cd_pc,        \* "loop", "apply", "done"
    cd_idx,       \* the index the zip_longest loop has come to
    cd_start,     \* start
    cd_frag,      \* frag
    cd_frags,     \* frags
    cd_out        \* what delta::apply returned

delta_vars == << cd_b1, cd_b2, cd_pc, cd_idx, cd_start, cd_frag, cd_frags, cd_out >>

vars == << resolver_vars, bundle_vars, between_vars, upload_vars, commands_vars,
           import_vars, delta_vars >>

\* What the steps of one part leave alone: the variables of the others.
not_resolver_vars ==
    << bundle_vars, between_vars, upload_vars, commands_vars, import_vars, delta_vars >>
not_bundle_vars ==
    << resolver_vars, between_vars, upload_vars, commands_vars, import_vars, delta_vars >>
not_between_vars ==
    << resolver_vars, bundle_vars, upload_vars, commands_vars, import_vars, delta_vars >>
not_upload_vars ==
    << resolver_vars, bundle_vars, between_vars, commands_vars, import_vars, delta_vars >>
not_commands_vars ==
    << resolver_vars, bundle_vars, between_vars, upload_vars, import_vars, delta_vars >>
not_import_vars ==
    << resolver_vars, bundle_vars, between_vars, upload_vars, commands_vars, delta_vars >>
not_delta_vars ==
    << resolver_vars, bundle_vars, between_vars, upload_vars, commands_vars, import_vars >>

(***************************************************************************)
(* Futures and errors.                                                     *)
(***************************************************************************)
\* A resolved future: Ok(bytes) or Err(err).
FutOk(bytes) == [st |-> "ok", bytes |-> bytes]
FutErr(err) == [st |-> "err", err |-> err]
\* bytes.clone().map(|bytes| delta::apply(&bytes, &delta)) on the shared
\* future of a cached base.
FutMap(base, node, delta) ==
    [st |-> "map", base |-> base, node |-> node, delta |-> delta]
\* repo.get_file_content(&base).map(|bytes| delta::apply(bytes, &delta)).
FutFetch(base, node, delta) ==
    [st |-> "fetch", base |-> base, node |-> node, delta |-> delta]

\* The error of get_file_content for a node the repository does not hold.
MissingBase == [msg |-> "MissingBase", context |-> << >>]

\* An error passed on as it came.
with_context_none(err, base, node) == err

\* err.context("While looking for base {base} to apply on delta {node}").
with_context(err, base, node) ==
    [err EXCEPT !.context = << [base |-> base, node |-> node] >> \o @]

\* A repository that answers a missing node with empty content.
get_file_content_lenient(r, node) ==
    IF node \in DOMAIN r THEN FutOk(r[node]) ELSE FutOk(<< >>)

\* repo.get_file_content(node).
get_file_content(r, node) ==
    IF node \in DOMAIN r THEN FutOk(r[node]) ELSE FutErr(MissingBase)

(***************************************************************************)
(* DeltaCache (filelog.rs 92-161).                                         *)
(***************************************************************************)
\* DeltaCache::new: an empty bytes_cache.
DeltaCache_new == << >>

\* self.bytes_cache.get(&key).
cache_get(cache, key) == IF key \in DOMAIN cache THEN Some(cache[key]) ELSE None

\* self.bytes_cache.insert(key, fut): the map with key bound to fut.
cache_insert(cache, key, fut) == (key :> fut) @@ cache

\* A decode that never finds the node stored.
decode_hit_never(cache, node) == FALSE

\* One cache for all the streams.
cache_of_shared(caches, s) ==
    [n \in UNION { DOMAIN caches[t] : t \in Streams } |->
        IF n \in DOMAIN caches[s] THEN caches[s][n]
        ELSE caches[CHOOSE t \in Streams : n \in DOMAIN caches[t]][n]]

\* convert_to_revlog_filelog, line 63: the DeltaCache of a call is the one
\* it created, moved into its closure.
cache_of(caches, s) == caches[s]

\* A decode that never finds the NULL_HASH key stored.
decode_hit_nonnull(cache, node) == node # NULL_HASH /\ cache_get(cache, node) # None

\* decode, line 111: whether the node's shared future is already stored.
decode_hit(cache, node) == cache_get(cache, node) # None

\* A decode that stores the future it builds over the one already stored.
decode_store_overwrite(cache, hit, node, vec) == cache_insert(cache, node, vec)

\* decode, lines 111-148: the cache after the match on bytes_cache.get(&node):
\* untouched when the node is stored, with the new future inserted otherwise.
decode_store(cache, hit, node, vec) ==
    IF hit THEN cache ELSE cache_insert(cache, node, vec)

\* A decode that applies the delta to the empty buffer whatever the base.
decode_vec_no_base(cache, node, base, delta) == FutOk(apply(<< >>, delta))

\* A decode that asks the repository for every base, cached or not.
decode_vec_always_fetch(cache, node, base, delta) ==
    IF base = None
    THEN FutOk(apply(<< >>, delta))
    ELSE FutFetch(base.val, node, delta)

\* decode, lines 118-140: the future built for a node that is not stored.
decode_vec(cache, node, base, delta) ==
    IF base = None
    THEN FutOk(apply(<< >>, delta))
    ELSE IF cache_get(cache, base.val) # None
         THEN FutMap(base.val, node, delta)
         ELSE FutFetch(base.val, node, delta)

\* Whether decode asks the cache for the base (line 121).
decode_looks_up_base(hit, base) == ~hit /\ base # None

\* One poll of a future of the cache: a map over a cached base resolves as
\* soon as the base has (lines 122-126, 132-138); a fetch stays pending until
\* the repository answers.
poll_future(cache, fut) ==
    IF fut.st = "map"
    THEN LET b == cache[fut.base]
         IN  IF b.st = "ok" THEN FutOk(apply(b.bytes, fut.delta))
             ELSE IF b.st = "err"
                  THEN FutErr(with_context(b.err, fut.base, fut.node))
                  ELSE fut
    ELSE fut

\* The answer of the repository to a pending fetch (lines 127-138).
fetch_done(r, fut) ==
    LET got == get_file_content(r, fut.base)
    IN  IF got.st = "ok" THEN FutOk(apply(got.bytes, fut.delta))
        ELSE FutErr(with_context(got.err, fut.base, fut.node))

(***************************************************************************)
(* convert_to_revlog_filelog (filelog.rs 59-90), collected by              *)
(* collect().wait() as check_conversion does (filelog.rs 266-271).         *)
(***************************************************************************)
Running == [tag |-> "Running"]
Ok == [tag |-> "Ok"]
Err(e) == [tag |-> "Err", err |-> e]
Panic == [tag |-> "Panic"]

\* A base handed to decode without into_option.
decode_base_raw(chunk) == Some(chunk.base)

\* The base handed to decode (line 76): base.into_option().
decode_base(chunk) == into_option(chunk.base)

\* A consumer that polls on after an error.
collect_polls_on(res) == res.tag \in {"Running", "Err"}

\* collect() polls the stream until its first error or its end.
collect_polls(res) == res = Running

\* A closure that swaps the parents.
make_filelog_swapped(item, blob) ==
    Filelog(RepoPath_file(item.path), item.chunk.node,
            into_option(item.chunk.p2), into_option(item.chunk.p1),
            item.chunk.linknode, blob)

\* A closure that takes the linknode from the p1 slot.
make_filelog_linknode(item, blob) ==
    Filelog(RepoPath_file(item.path), item.chunk.node,
            into_option(item.chunk.p1), into_option(item.chunk.p2),
            item.chunk.p1, blob)

\* The closure of lines 77-86: the Filelog of a record and its blob.
make_filelog(item, blob) ==
    Filelog(RepoPath_file(item.path), item.chunk.node,
            into_option(item.chunk.p1), into_option(item.chunk.p2),
            item.chunk.linknode, blob)

\* An and_then that takes the next record whether or not the future of the
\* last one has resolved.
and_then_eager(w) == TRUE

\* Stream::and_then (line 65): the next record is taken from the input only
\* when no future of an earlier record is awaited.
and_then_ready(w) == w = 0

\* What collect() does with a future of and_then that has resolved.
AfterResolved(s, item, fut) ==
    /\ filelogs' = [filelogs EXCEPT ![s] =
                      IF fut.st = "ok"
                      THEN Append(@, make_filelog(item, fut.bytes)) ELSE @]
    /\ result' = [result EXCEPT ![s] = IF fut.st = "err" THEN Err(fut.err) ELSE @]

\* and_then takes the next record, calls decode and polls the future it
\* returns; a ready Filelog is pushed by collect(), an error ends collect().
AndThenPoll(s) ==
    /\ collect_polls(result[s])
    /\ and_then_ready(wait[s])
    /\ consumed[s] < Len(deltaed[s])
    /\ LET i == consumed[s] + 1
           item == deltaed[s][i]
           node == item.chunk.node
           base == decode_base(item.chunk)
           delta == item.chunk.delta
           cache == cache_of(bytes_cache, s)
           hit == decode_hit(cache, node)
           vec == decode_vec(cache, node, base, delta)
           panics == ~hit /\ node \in DOMAIN cache
           cache1 == decode_store(cache, hit, node, vec)
           fut == poll_future(cache1, cache1[node])
           ev == [stream |-> s, rec |-> i]
       IN  /\ consumed' = [consumed EXCEPT ![s] = i]
           /\ stats' = [dsize |-> stats.dsize + (IF hit THEN 0 ELSE 1),
                        fsize |-> stats.fsize
                                    + (IF ~panics /\ fut.st = "ok" THEN 1 ELSE 0)]
           /\ lookups' = IF decode_looks_up_base(hit, base)
                         THEN lookups \cup {ev @@ [base |-> base.val]}
                         ELSE lookups
           /\ fetches' = IF ~hit /\ vec.st = "fetch"
                         THEN fetches \cup {ev @@ [base |-> vec.base]}
                         ELSE fetches
           /\ applied' = IF ~hit /\ (vec.st = "ok" \/ (~panics /\ vec.st = "map" /\ fut.st = "ok"))
                         THEN applied \cup {ev @@ [node |-> node]}
                         ELSE applied
           /\ IF panics
              THEN /\ result' = [result EXCEPT ![s] = Panic]
                   /\ UNCHANGED << bytes_cache, wait, filelogs >>
              ELSE /\ bytes_cache' = [bytes_cache EXCEPT ![s] =
                                        [cache1 EXCEPT ![node] = fut]]
                   /\ IF fut.st \in {"ok", "err"}
                      THEN AfterResolved(s, item, fut) /\ UNCHANGED wait
                      ELSE /\ wait' = [wait EXCEPT ![s] = i]
                           /\ UNCHANGED << filelogs, result >>
    /\ UNCHANGED << repo, deltaed, not_resolver_vars >>

\* The repository answers the fetch that and_then awaits: the shared future
\* of the record's node resolves, with the Filelog or with the error.
FetchComplete(s) ==
    /\ collect_polls(result[s])
    /\ wait[s] # 0
    /\ LET i == wait[s]
           item == deltaed[s][i]
           node == item.chunk.node
           pending == bytes_cache[s][node]
           fut == fetch_done(repo, pending)
       IN  /\ pending.st = "fetch"
           /\ bytes_cache' = [bytes_cache EXCEPT ![s][node] = fut]
           /\ applied' = IF fut.st = "ok"
                         THEN applied \cup {[stream |-> s, rec |-> i, node |-> node]}
                         ELSE applied
           /\ stats' = [stats EXCEPT !.fsize = @ + (IF fut.st = "ok" THEN 1 ELSE 0)]
           /\ wait' = [wait EXCEPT ![s] = 0]
           /\ AfterResolved(s, item, fut)
    /\ UNCHANGED << repo, deltaed, consumed, fetches, lookups, not_resolver_vars >>

\* The input is exhausted: collect() returns the Filelogs.
CollectEnd(s) ==
    /\ collect_polls(result[s])
    /\ wait[s] = 0
    /\ consumed[s] = Len(deltaed[s])
    /\ result' = [result EXCEPT ![s] = Ok]
    /\ UNCHANGED << repo, deltaed, consumed, bytes_cache, wait, filelogs,
                    fetches, applied, lookups, stats, not_resolver_vars >>

(***************************************************************************)
(* The resolver's specification: one stream against one repository.        *)
(***************************************************************************)
\* Nodes are numbered in the order in which a stream introduces them: the
\* node of a record is NULL_HASH, an earlier record's node, or the next
\* unused hash. Bases are any hash.
InOrder(in) ==
    \A i \in 1..Len(in) :
        \/ in[i].chunk.node = NULL_HASH
        \/ \A n \in 1..(in[i].chunk.node - 1) :
              \E j \in 1..(i - 1) : in[j].chunk.node = n

InputStreams ==
    { in \in UNION { [1..n -> DeltaedSet] : n \in 0..MaxRecords } : InOrder(in) }

ResolverInit ==
    /\ repo \in {EmptyRepo, FullRepo}
    /\ \E in \in InputStreams :
          deltaed = [s \in Streams |-> IF s = 1 THEN in ELSE << >>]
    /\ consumed = [s \in Streams |-> 0]
    /\ bytes_cache = [s \in Streams |-> DeltaCache_new]
    /\ wait = [s \in Streams |-> 0]
    /\ filelogs = [s \in Streams |-> << >>]
    /\ result = [s \in Streams |-> IF s = 1 THEN Running ELSE Ok]
    /\ fetches = {}
    /\ applied = {}
    /\ lookups = {}
    /\ stats = [dsize |-> 0, fsize |-> 0]

\* Two calls of convert_to_revlog_filelog on the same repository: streams
\* of at most MaxRecordsEach records of one path and one delta.
MaxRecordsEach == 2

ShortRecords ==
    { d \in DeltaedSet : d.path = "test" /\ d.chunk.delta = new_fulltext(<< 1 >>) }

ShortStreams ==
    { in \in UNION { [1..n -> ShortRecords] : n \in 0..MaxRecordsEach } : InOrder(in) }

TwoStreamsInit ==
    /\ repo \in {EmptyRepo, FullRepo}
    /\ deltaed \in [Streams -> ShortStreams]
    /\ consumed = [s \in Streams |-> 0]
    /\ bytes_cache = [s \in Streams |-> DeltaCache_new]
    /\ wait = [s \in Streams |-> 0]
    /\ filelogs = [s \in Streams |-> << >>]
    /\ result = [s \in Streams |-> Running]
    /\ fetches = {}
    /\ applied = {}
    /\ lookups = {}
    /\ stats = [dsize |-> 0, fsize |-> 0]

\* No stream is being resolved.
ResolverIdle ==
    /\ repo = EmptyRepo
    /\ deltaed = [s \in Streams |-> << >>]
    /\ consumed = [s \in Streams |-> 0]
    /\ bytes_cache = [s \in Streams |-> DeltaCache_new]
    /\ wait = [s \in Streams |-> 0]
    /\ filelogs = [s \in Streams |-> << >>]
    /\ result = [s \in Streams |-> Ok]
    /\ fetches = {}
    /\ applied = {}
    /\ lookups = {}
    /\ stats = [dsize |-> 0, fsize |-> 0]

ResolverNext ==
    \E s \in Streams :
        \/ AndThenPoll(s)
        \/ FetchComplete(s)
        \/ CollectEnd(s)

(***************************************************************************)
(* getbundle and create_bundle (server/src/repo.rs 106-147, 255-262).      *)
(***************************************************************************)
\* The bookmark names of the store.
BookmarkNames == {"master", "stable", "dev"}

\* NodeHash::to_hex of a one-byte hash: its two hex digits.
to_hex(h) == << h \div 16, h % 16 >>

\* create_bundle adding the part whenever any keys are asked for.
wants_bookmarks_any(listkeys) == listkeys # {}

\* args.listkeys.contains(&b"bookmarks".to_vec()) (116).
wants_bookmarks(listkeys) == "bookmarks" \in listkeys

\* Bundle2EncodeBuilder::new and set_compressor_type (107-112).
new_bundle == [compressor |-> "Uncompressed", parts |-> << >>]

\* parts::listkey_part(namespace, items), before the encoder has drained
\* its items.
listkey_part(namespace) == [type |-> "listkeys", namespace |-> namespace, items |-> << >>]

\* The future the and_then closure returns for the result of
\* bookmarks.get(&name) (lines 125-133).
get_arm(name, got) ==
    IF got = None
    THEN [st |-> "empty", name |-> name]
    ELSE [st |-> "ready", name |-> name, item |-> << name, to_hex(got.val) >>]

\* bookmarks.get(&name) on the store as it is now.
bookmarks_get(store, name) ==
    IF name \in DOMAIN store THEN Some(store[name]) ELSE None

\* getbundle calls create_bundle with "bookmarks" requested: the store
\* opens, keys() enumerates its names and the listkeys part is added.
CreateBundleListkeys ==
    /\ gb_pc = "called"
    /\ wants_bookmarks(gb_args)
    /\ gb_opened' = gb_opened + 1
    /\ gb_keys' = DOMAIN bookmarks
    /\ gb_bundle' = [new_bundle EXCEPT !.parts = << listkey_part("bookmarks") >>]
    /\ gb_pc' = "items"
    /\ UNCHANGED << bookmarks, gb_args, gb_get, gb_result, gb_dropped >>
    /\ UNCHANGED not_bundle_vars

\* self.repo.hgrepo.bookmarks()? fails: create_bundle returns the error and
\* getbundle returns it as a failed future (lines 117, 258-261).
CreateBundleOpenFails ==
    /\ gb_pc = "called"
    /\ wants_bookmarks(gb_args)
    /\ gb_opened' = gb_opened + 1
    /\ gb_result' = Err("bookmarks")
    /\ gb_pc' = "done"
    /\ UNCHANGED << bookmarks, gb_args, gb_keys, gb_get, gb_bundle, gb_dropped >>
    /\ UNCHANGED not_bundle_vars

\* create_bundle without "bookmarks" in args.listkeys: no part is added.
CreateBundlePlain ==
    /\ gb_pc = "called"
    /\ ~wants_bookmarks(gb_args)
    /\ gb_bundle' = new_bundle
    /\ gb_pc' = "items"
    /\ UNCHANGED << bookmarks, gb_args, gb_keys, gb_get, gb_result, gb_dropped,
                    gb_opened >>
    /\ UNCHANGED not_bundle_vars

\* The encoder polls items: and_then takes the next name and calls
\* bookmarks.get(&name).
ItemsNext ==
    /\ gb_pc = "items"
    /\ gb_get = None
    /\ \E name \in gb_keys :
          /\ gb_keys' = gb_keys \ {name}
          /\ gb_get' = [st |-> "get", name |-> name]
    /\ UNCHANGED << bookmarks, gb_args, gb_pc, gb_bundle, gb_result, gb_dropped,
                    gb_opened >>
    /\ UNCHANGED not_bundle_vars

\* The lookup resolves: a value gives the item (name, hex hash), which the
\* part takes; None gives future::empty(), which and_then goes on awaiting.
GetDone ==
    /\ gb_pc = "items"
    /\ gb_get # None
    /\ gb_get.st = "get"
    /\ LET name == gb_get.name
           got == bookmarks_get(bookmarks, name)
           fut == get_arm(name, got)
       IN  IF fut.st = "ready"
           THEN /\ gb_bundle' = [gb_bundle EXCEPT !.parts[1].items = Append(@, fut.item)]
                /\ gb_get' = None
                /\ UNCHANGED gb_dropped
           ELSE /\ gb_get' = fut
                /\ gb_dropped' = gb_dropped \cup {name}
                /\ UNCHANGED gb_bundle
    /\ UNCHANGED << bookmarks, gb_args, gb_pc, gb_keys, gb_result, gb_opened >>
    /\ UNCHANGED not_bundle_vars

\* items has ended: bundle.build() resolves to the bytes of the bundle.
BuildDone ==
    /\ gb_pc = "items"
    /\ gb_get = None
    /\ gb_keys = {}
    /\ gb_result' = [tag |-> "Ok", bundle |-> gb_bundle]
    /\ gb_pc' = "done"
    /\ UNCHANGED << bookmarks, gb_args, gb_keys, gb_get, gb_bundle, gb_dropped,
                    gb_opened >>
    /\ UNCHANGED not_bundle_vars

\* Another client deletes a bookmark while the bundle is being built.
DeleteBookmark ==
    /\ gb_pc = "items"
    /\ \E name \in DOMAIN bookmarks :
          bookmarks' = [n \in DOMAIN bookmarks \ {name} |-> bookmarks[n]]
    /\ UNCHANGED << gb_args, gb_pc, gb_keys, gb_get, gb_bundle, gb_result,
                    gb_dropped, gb_opened >>
    /\ UNCHANGED not_bundle_vars

\* The steps of the getbundle call itself.
GetbundleStep ==
    \/ CreateBundleListkeys
    \/ CreateBundleOpenFails
    \/ CreateBundlePlain
    \/ ItemsNext
    \/ GetDone
    \/ BuildDone

BundleInit ==
    /\ bookmarks \in UNION { [S -> {ONES_HASH, TWOS_HASH}] : S \in SUBSET BookmarkNames }
    /\ gb_args \in SUBSET {"bookmarks", "phases"}
    /\ gb_pc = "called"
    /\ gb_keys = {}
    /\ gb_get = None
    /\ gb_bundle = new_bundle
    /\ gb_result = Running
    /\ gb_dropped = {}
    /\ gb_opened = 0

\* No getbundle call is under way.
BundleIdle ==
    /\ bookmarks = << >>
    /\ gb_args = {}
    /\ gb_pc = "done"
    /\ gb_keys = {}
    /\ gb_get = None
    /\ gb_bundle = new_bundle
    /\ gb_result = Running
    /\ gb_dropped = {}
    /\ gb_opened = 0

BundleNext ==
    \/ CreateBundleListkeys
    \/ CreateBundleOpenFails
    \/ CreateBundlePlain
    \/ ItemsNext
    \/ GetDone
    \/ BuildDone
    \/ DeleteBookmark

(***************************************************************************)
(* between and ParentStream (server/src/repo.rs 152-219).                  *)
(***************************************************************************)
\* The changesets of the repository are 1..MaxHistory.
MaxHistory == 44

Parents_None == [kind |-> "None"]
Parents_One(p) == [kind |-> "One", p1 |-> p]
Parents_Two(p, q) == [kind |-> "Two", p1 |-> p, p2 |-> q]

\* cs.parents(): changeset 1 is the root; every fourth changeset is a merge
\* whose first parent is the changeset two below it and whose second parent
\* is its predecessor; every other one is the child of its predecessor.
parents(n) ==
    IF n = 1 THEN Parents_None
    ELSE IF n % 4 = 0 THEN Parents_Two(n - 2, n - 1)
    ELSE Parents_One(n - 1)

\* self.repo.hgrepo.get_changeset_by_nodeid(&n).
get_changeset_by_nodeid(n) ==
    IF n \in 1..MaxHistory THEN [st |-> "ok", parents |-> parents(n)]
    ELSE [st |-> "err"]

\* A walk that stops at NULL_HASH only.
walk_over_null_only(n, bottom) == n = NULL_HASH

\* poll, line 178: the walk is over.
walk_over(n, bottom) == n = bottom \/ n = NULL_HASH

\* The walk following the second parent of a merge.
first_parent_second(ps) ==
    IF ps.kind = "None" THEN NULL_HASH ELSE IF ps.kind = "Two" THEN ps.p2 ELSE ps.p1

\* poll, lines 188-192: the parent the walk follows.
first_parent(ps) ==
    IF ps.kind = "None" THEN NULL_HASH ELSE ps.p1

\* f = 1 (line 205).
filter_start == 1

\* An f that lives on from one pair to the next.
pair_filter_state_kept(f) == f

\* The f of the filter of a new pair: `let mut f = 1` stands inside the
\* closure of the outer and_then (lines 204-205).
pair_filter_state(f) == filter_start

\* The filter closure (lines 208-213): whether (i, _) is kept ...
filter_keeps(i, f) == i = f

\* The filter closure with f advanced by one instead of doubled.
filter_advance_by_one(i, f) == IF i = f THEN f + 1 ELSE f

\* ... and f after it.
filter_advance(i, f) == IF i = f THEN f * 2 ELSE f

\* The outer and_then takes the next pair: a new ParentStream, enumerate,
\* filter and collect.
BetweenTakePair ==
    /\ bt_pc = "next"
    /\ bt_idx < Len(bt_pairs)
    /\ bt_idx' = bt_idx + 1
    /\ ps_n' = bt_pairs[bt_idx + 1][1]
    /\ ps_bottom' = bt_pairs[bt_idx + 1][2]
    /\ ps_wait_cs' = None
    /\ enum_i' = 0
    /\ filter_f' = pair_filter_state(filter_f)
    /\ bt_cur' = << >>
    /\ bt_raw' = << >>
    /\ bt_pc' = "walk"
    /\ UNCHANGED << bt_pairs, bt_out, bt_result, bt_raws, cs_fetches >>
    /\ UNCHANGED not_between_vars

\* ParentStream::poll with n = bottom or n = NULL_HASH: the stream ends and
\* the inner collect() yields the list of the pair.
ParentStreamEnd ==
    /\ bt_pc = "walk"
    /\ walk_over(ps_n, ps_bottom)
    /\ bt_out' = Append(bt_out, bt_cur)
    /\ bt_raws' = Append(bt_raws, bt_raw)
    /\ bt_pc' = "next"
    /\ UNCHANGED << bt_pairs, bt_idx, ps_n, ps_bottom, ps_wait_cs, enum_i, filter_f,
                    bt_cur, bt_result, bt_raw, cs_fetches >>
    /\ UNCHANGED not_between_vars

\* ParentStream::poll with no fetch in flight: it asks for the changeset
\* of n and is not ready.
ParentStreamFetch ==
    /\ bt_pc = "walk"
    /\ ~walk_over(ps_n, ps_bottom)
    /\ ps_wait_cs = None
    /\ ps_wait_cs' = Some(ps_n)
    /\ cs_fetches' = Append(cs_fetches, ps_n)
    /\ UNCHANGED << bt_pairs, bt_pc, bt_idx, ps_n, ps_bottom, enum_i, filter_f,
                    bt_cur, bt_out, bt_result, bt_raw, bt_raws >>
    /\ UNCHANGED not_between_vars

\* ParentStream::poll with the changeset fetched: n moves to the first
\* parent and the old n is emitted, numbered by enumerate, kept or dropped
\* by the filter and gathered by collect. A failed fetch fails between.
ParentStreamReady ==
    /\ bt_pc = "walk"
    /\ ~walk_over(ps_n, ps_bottom)
    /\ ps_wait_cs # None
    /\ LET cs == get_changeset_by_nodeid(ps_wait_cs.val)
       IN  IF cs.st = "ok"
           THEN /\ ps_n' = first_parent(cs.parents)
                /\ ps_wait_cs' = None
                /\ bt_raw' = Append(bt_raw, ps_n)
                /\ enum_i' = enum_i + 1
                /\ filter_f' = filter_advance(enum_i, filter_f)
                /\ bt_cur' = IF filter_keeps(enum_i, filter_f)
                             THEN Append(bt_cur, ps_n) ELSE bt_cur
                /\ UNCHANGED << bt_pc, bt_result >>
           ELSE /\ bt_result' = Err("changeset")
                /\ bt_pc' = "done"
                /\ UNCHANGED << ps_n, ps_wait_cs, bt_raw, enum_i, filter_f, bt_cur >>
    /\ UNCHANGED << bt_pairs, bt_idx, ps_bottom, bt_out, bt_raws, cs_fetches >>
    /\ UNCHANGED not_between_vars

\* The pairs are exhausted: the outer collect() yields the lists.
BetweenEnd ==
    /\ bt_pc = "next"
    /\ bt_idx = Len(bt_pairs)
    /\ bt_result' = [tag |-> "Ok", lists |-> bt_out]
    /\ bt_pc' = "done"
    /\ UNCHANGED << bt_pairs, bt_idx, ps_n, ps_bottom, ps_wait_cs, enum_i, filter_f,
                    bt_cur, bt_out, bt_raw, bt_raws, cs_fetches >>
    /\ UNCHANGED not_between_vars

\* The calls of between: one pair of any two hashes (known changesets,
\* NULL_HASH or an unknown hash), or two pairs of small hashes, their tops
\* possibly unknown.
BetweenCalls ==
    { << << t, b >> >> : t \in 0..(MaxHistory + 1), b \in 0..(MaxHistory + 1) }
    \cup { << << t1, b1 >>, << t2, b2 >> >> :
             t1 \in NodeHash \cup {MaxHistory + 1}, b1 \in NodeHash,
             t2 \in NodeHash \cup {MaxHistory + 1}, b2 \in NodeHash }

BetweenInit ==
    /\ bt_pairs \in BetweenCalls
    /\ bt_pc = "next"
    /\ bt_idx = 0
    /\ ps_n = NULL_HASH
    /\ ps_bottom = NULL_HASH
    /\ ps_wait_cs = None
    /\ enum_i = 0
    /\ filter_f = filter_start
    /\ bt_cur = << >>
    /\ bt_out = << >>
    /\ bt_result = Running
    /\ bt_raw = << >>
    /\ bt_raws = << >>
    /\ cs_fetches = << >>

\* No between call is under way.
BetweenIdle ==
    /\ bt_pairs = << >>
    /\ bt_pc = "done"
    /\ bt_idx = 0
    /\ ps_n = NULL_HASH
    /\ ps_bottom = NULL_HASH
    /\ ps_wait_cs = None
    /\ enum_i = 0
    /\ filter_f = filter_start
    /\ bt_cur = << >>
    /\ bt_out = << >>
    /\ bt_result = Running
    /\ bt_raw = << >>
    /\ bt_raws = << >>
    /\ cs_fetches = << >>

BetweenNext ==
    \/ BetweenTakePair
    \/ ParentStreamEnd
    \/ ParentStreamFetch
    \/ ParentStreamReady
    \/ BetweenEnd

(***************************************************************************)
(* Filelog::upload (bundle2-resolver/src/changegroup/filelog.rs 44-57) and *)
(* a batch uploader that keeps one future per key.                         *)
(***************************************************************************)
\* The Filelogs of the batches.
UploadFilelogs ==
    { Filelog(RepoPath_file(path), ONES_HASH, p1, None, TWOS_HASH, blob) :
        path \in {"test", "test2"}, p1 \in {None, Some(TWOS_HASH)},
        blob \in {<< >>, << 1 >>} }

Batches == UNION { [1..n -> UploadFilelogs] : n \in 0..MaxRecords }

\* The node repo.upload_entry computes for an entry: the hash of its
\* content and parents, kept here as the hashed data itself.
entry_node(blob, p1, p2) == << blob, p1, p2 >>

\* repo.upload_entry(blob, Type::File, p1, p2, path): its synchronous phase
\* schedules the write of the entry and returns the node with the future
\* of that write.
upload_entry(writes, blob, p1, p2, path) ==
    [node |-> entry_node(blob, p1, p2),
     fut |-> Len(writes) + 1,
     write |-> [key |-> << entry_node(blob, p1, p2), path >>, st |-> "inflight"]]

\* Filelog::upload (47-56): one repo.upload_entry call, its future wrapped
\* in a new Shared, under the key (node, path).
Filelog_upload(f, writes) ==
    LET up == upload_entry(writes, f.blob, f.p1, f.p2, f.path)
    IN  [key |-> << up.node, f.path >>,
         value |-> [shared |-> up.fut],
         writes |-> Append(writes, up.write)]

\* The uploader takes the next Filelog of the batch and uploads it; a key
\* seen before keeps its future.
UploadNext ==
    /\ up_result = Running
    /\ up_idx < Len(up_batch)
    /\ LET up == Filelog_upload(up_batch[up_idx + 1], up_writes)
       IN  /\ up_writes' = up.writes
           /\ up_map' = IF up.key \in DOMAIN up_map THEN up_map
                        ELSE (up.key :> up.value) @@ up_map
    /\ up_idx' = up_idx + 1
    /\ UNCHANGED << up_batch, up_result >>
    /\ UNCHANGED not_upload_vars

\* repo.upload_entry returns Err: upload returns it and the batch fails.
UploadEntryFails ==
    /\ up_result = Running
    /\ up_idx < Len(up_batch)
    /\ up_idx' = up_idx + 1
    /\ up_result' = Err("upload_entry")
    /\ UNCHANGED << up_batch, up_map, up_writes >>
    /\ UNCHANGED not_upload_vars

\* A scheduled write completes or fails.
WriteDone ==
    /\ \E w \in 1..Len(up_writes) :
          /\ up_writes[w].st = "inflight"
          /\ \E st \in {"done", "failed"} :
                up_writes' = [up_writes EXCEPT ![w].st = st]
    /\ UNCHANGED << up_batch, up_idx, up_map, up_result >>
    /\ UNCHANGED not_upload_vars

\* Every Filelog is uploaded and the futures of the map have resolved.
BatchDone ==
    /\ up_result = Running
    /\ up_idx = Len(up_batch)
    /\ \A k \in DOMAIN up_map : up_writes[up_map[k].shared].st # "inflight"
    /\ up_result' = IF \E k \in DOMAIN up_map : up_writes[up_map[k].shared].st = "failed"
                    THEN Err("write") ELSE Ok
    /\ UNCHANGED << up_batch, up_idx, up_map, up_writes >>
    /\ UNCHANGED not_upload_vars

UploadInit ==
    /\ up_batch \in Batches
    /\ up_idx = 0
    /\ up_map = << >>
    /\ up_writes = << >>
    /\ up_result = Running

\* No batch is being uploaded.
UploadIdle ==
    /\ up_batch = << >>
    /\ up_idx = 0
    /\ up_map = << >>
    /\ up_writes = << >>
    /\ up_result = Ok

UploadBatchNext ==
    \/ UploadNext
    \/ UploadEntryFails
    \/ WriteDone
    \/ BatchDone

(***************************************************************************)
(* hello, wireprotocaps, bundle2caps and known (server/src/repo.rs 40-68,  *)
(* 243-252, 265-274). Strings are sequences of characters.                 *)
(***************************************************************************)
\* wireprotocaps (40-46).
wireprotocaps ==
    << << "l", "o", "o", "k", "u", "p" >>,
       << "k", "n", "o", "w", "n" >>,
       << "g", "e", "t", "b", "u", "n", "d", "l", "e" >> >>

\* The entries of the hashmap! of bundle2caps (49-53).
bundle2_capmap ==
    { [key |-> << "H", "G", "2", "0" >>, value |-> << >>],
      [key |-> << "l", "i", "s", "t", "k", "e", "y", "s" >>, value |-> << >>],
      [key |-> << "c", "h", "a", "n", "g", "e", "g", "r", "o", "u", "p" >>,
       value |-> << << "0", "2" >> >>] }

\* The orders in which a HashMap of these entries can iterate.
IterationOrders ==
    { o \in [1..Cardinality(bundle2_capmap) -> bundle2_capmap] :
        \A i, j \in DOMAIN o : i # j => o[i] # o[j] }

\* [..].join(sep).
RECURSIVE join(_, _)
join(strs, sep) ==
    IF Len(strs) = 0 THEN << >>
    ELSE IF Len(strs) = 1 THEN strs[1]
    ELSE strs[1] \o sep \o join(Tail(strs), sep)

\* The characters percent_encode escapes, with their two hex digits.
reserved_hex ==
    ("\n" :> << "0", "A" >>) @@ ("=" :> << "3", "D" >>) @@ ("," :> << "2", "C" >>)
    @@ ("%" :> << "2", "5" >>)

\* percent_encode: a reserved character becomes %HH, the others pass.
RECURSIVE percent_encode(_)
percent_encode(str) ==
    IF Len(str) = 0 THEN << >>
    ELSE (IF str[1] \in DOMAIN reserved_hex
          THEN << "%" >> \o reserved_hex[str[1]]
          ELSE << str[1] >>) \o percent_encode(Tail(str))

\* The loop body of bundle2caps that drops the values of an entry.
encode_cap_key_only(cap) == cap.key

\* The loop body of bundle2caps (58-64): "key" or "key=v1,v2".
encode_cap(cap) ==
    IF Len(cap.value) > 0
    THEN join(<< cap.key, join(cap.value, << "," >>) >>, << "=" >>)
    ELSE cap.key

\* bundle2caps (48-68) with the map iterating in the given order.
bundle2caps(order) ==
    percent_encode(join([i \in DOMAIN order |-> encode_cap(order[i])], << "\n" >>))

\* hello (265-274): the map it resolves to.
hello_map(order) ==
    [capabilities |->
        Append(wireprotocaps,
               << "b", "u", "n", "d", "l", "e", "2", "=" >> \o bundle2caps(order))]

\* hello is called and resolves at once.
Hello ==
    /\ hl_result = Running
    /\ hl_result' = [tag |-> "Ok", map |-> hello_map(hl_order)]
    /\ UNCHANGED << hl_order, kn_nodes, kn_pc, kn_futs, kn_result, kn_completed >>
    /\ UNCHANGED not_commands_vars

\* self.repo.hgrepo.changeset_exists(node) on the history.
changeset_exists(node) == node \in 1..MaxHistory

\* The nodes a known call asks about: NULL_HASH, two changesets and a hash
\* that names no changeset.
KnownNodes == {NULL_HASH, ONES_HASH, TWOS_HASH, MaxHistory + 1}

KnownCalls == UNION { [1..n -> KnownNodes] : n \in 0..MaxRecords }

\* known (243-252): one changeset_exists future per node, in input order,
\* handed to join_all.
KnownCall ==
    /\ kn_pc = "called"
    /\ kn_futs' = [i \in DOMAIN kn_nodes |-> [st |-> "pending", node |-> kn_nodes[i]]]
    /\ kn_pc' = "joining"
    /\ UNCHANGED << hl_order, hl_result, kn_nodes, kn_result, kn_completed >>
    /\ UNCHANGED not_commands_vars

\* join_all keeping the result of a future at the end of the list.
join_all_store_pushed(futs, i, val) ==
    [k \in DOMAIN futs |->
        IF k < i THEN futs[k]
        ELSE IF k < Len(futs) THEN futs[k + 1]
        ELSE [st |-> "ok", val |-> val]]

\* join_all keeps the result of the i-th future in the i-th place.
join_all_store(futs, i, val) ==
    [futs EXCEPT ![i] = [st |-> "ok", val |-> val]]

\* A poll of join_all in which the existence check of node i completes:
\* with an error the join fails; with the last result it is ready with
\* the results in the order of the futures.
JoinAllPoll ==
    /\ kn_pc = "joining"
    /\ \E i \in DOMAIN kn_futs :
          /\ kn_futs[i].st = "pending"
          /\ kn_completed' = Append(kn_completed, i)
          /\ \E failed \in BOOLEAN :
                IF failed
                THEN /\ kn_result' = Err("changeset_exists")
                     /\ kn_futs' = << >>
                     /\ kn_pc' = "done"
                ELSE LET futs == join_all_store(kn_futs, i, changeset_exists(kn_futs[i].node))
                     IN  /\ kn_futs' = futs
                         /\ IF \A k \in DOMAIN futs : futs[k].st = "ok"
                            THEN /\ kn_result' = [tag |-> "Ok",
                                                  list |-> [k \in DOMAIN futs |-> futs[k].val]]
                                 /\ kn_pc' = "done"
                            ELSE UNCHANGED << kn_result, kn_pc >>
    /\ UNCHANGED << hl_order, hl_result, kn_nodes >>
    /\ UNCHANGED not_commands_vars

\* join_all of no futures is ready at its first poll.
JoinAllEmpty ==
    /\ kn_pc = "joining"
    /\ kn_futs = << >>
    /\ kn_result' = [tag |-> "Ok", list |-> << >>]
    /\ kn_pc' = "done"
    /\ UNCHANGED << hl_order, hl_result, kn_nodes, kn_futs, kn_completed >>
    /\ UNCHANGED not_commands_vars

CommandsInit ==
    /\ hl_order \in IterationOrders
    /\ hl_result = Running
    /\ kn_nodes \in KnownCalls
    /\ kn_pc = "called"
    /\ kn_futs = << >>
    /\ kn_result = Running
    /\ kn_completed = << >>

\* No hello and no known call is under way.
CommandsIdle ==
    /\ hl_order = << >>
    /\ hl_result = Ok
    /\ kn_nodes = << >>
    /\ kn_pc = "done"
    /\ kn_futs = << >>
    /\ kn_result = Ok
    /\ kn_completed = << >>

CommandsNext ==
    \/ Hello
    \/ KnownCall
    \/ JoinAllPoll
    \/ JoinAllEmpty

(***************************************************************************)
(* blobimport: run_blobimport, its iothread, open_blobstore and main       *)
(* (cmds/blobimport/main.rs).                                              *)
(***************************************************************************)
\* The largest channel_size of the model.
MaxChannel == 2

\* --channel-size, a positive integer.
ChannelSizes == 1..MaxChannel

\* The attempt numbers looked at.
MaxAttempt == 5

\* --channel-size as given on the command line, if it is given.
ChannelSizeArgs == {None} \cup { Some(n) : n \in ChannelSizes }

\* main (358-363): the channel size, 1000 unless the option is given.
channel_size_of(arg) == unwrap_or(arg, 1000)

\* A channel that admits one entry more than its bound.
channel_full_late(queue, bound) == Len(queue) > bound

\* sync_channel(channel_size) (134): a send waits while the channel holds
\* bound entries.
channel_full(queue, bound) == Len(queue) >= bound

\* buffer_unordered(channel_size) (159): it polls its stream for another
\* future only while it holds fewer than max.
buffer_has_room(queue, max) == Len(queue) < max

BlobstoreTypes == {"Files", "Rocksdb", "Manifold"}

\* BlobstoreEntry (103-106).
ManifestEntry(key, value) == [kind |-> "ManifestEntry", key |-> key, value |-> value]
Changeset(bcs) == [kind |-> "Changeset", bcs |-> bcs]

\* The entries a conversion sends: two keys, one of them with two values,
\* and a changeset.
BlobstoreEntries ==
    { ManifestEntry("k1", 1), ManifestEntry("k1", 2), ManifestEntry("k2", 1),
      Changeset("c1") }

Conversions == UNION { [1..n -> BlobstoreEntries] : n \in 0..MaxRecords }

import_params == << blobtype, channel_size, im_entries >>

\* The put delay with the bound on the attempt off by one.
put_delay_early(attempt) ==
    IF attempt >= 3 THEN None ELSE Some(100 * 4 ^ attempt)

\* The put delay closure handed to RetryingBlobstore::new (236-241).
put_delay(attempt) ==
    IF attempt > 3 THEN None ELSE Some(100 * 4 ^ attempt)

\* open_blobstore (210-245): only the Manifold store gets the retry layer.
retrying(ty) == ty = "Manifold"

\* main (389-392): the exit status for the result of run.
exit_status(res) == IF res = Ok THEN 0 ELSE 1

\* The exit status of a process whose main thread panicked.
panic_status == 101

\* open_blobstore (210-244) failing: Fileblob::create and
\* Rocksblob::open_with_options give an error that `?` returns;
\* ManifoldBlob::new_may_panic gives no Result, it panics.
open_blobstore_failure(ty) ==
    IF ty = "Manifold" THEN Panic ELSE Err("blobstore")

\* A join that does not wait for the thread.
join_ready_always(pc) == TRUE

\* iothread.join() (177) returns once the iothread has ended.
join_ready(pc) == pc = "done"

\* The result of run_blobimport taken from the conversion alone.
join_result_of_convert(io_res, res) == res

\* iothread.join().expect(..)?; res (177-178) for an iothread that
\* returned io_res.
join_result(io_res, res) == IF io_res # Ok THEN io_res ELSE res

\* The map closure always putting a manifest entry.
entry_future_always_put(seen, entry) ==
    IF entry.kind = "Changeset"
    THEN [kind |-> "save", key |-> entry.bcs, value |-> 0, st |-> "inflight",
          attempt |-> 0, waited |-> 0]
    ELSE [kind |-> "put", key |-> entry.key, value |-> entry.value,
          st |-> "inflight", attempt |-> 0, waited |-> 0]

\* The map closure of the iothread (146-157): the future of an entry.
entry_future(seen, entry) ==
    IF entry.kind = "Changeset"
    THEN [kind |-> "save", key |-> entry.bcs, value |-> 0, st |-> "inflight",
          attempt |-> 0, waited |-> 0]
    ELSE IF entry.key \notin seen
    THEN [kind |-> "put", key |-> entry.key, value |-> entry.value,
          st |-> "inflight", attempt |-> 0, waited |-> 0]
    ELSE [kind |-> "ready", key |-> entry.key, value |-> entry.value, st |-> "ok",
          attempt |-> 0, waited |-> 0]

\* The sequence without its i-th element.
RemoveAt(seq, i) == SubSeq(seq, 1, i - 1) \o SubSeq(seq, i + 1, Len(seq))

\* run_blobimport returns res, its locals are dropped and main exits.
Return(res) ==
    /\ im_result' = res
    /\ im_pc' = "done"
    /\ im_exit' = Some(exit_status(res))
    /\ sender_alive' = FALSE

\* A panic of the main thread: run_blobimport does not return and the
\* process exits.
MainPanics ==
    /\ im_result' = Panic
    /\ im_pc' = "done"
    /\ im_exit' = Some(panic_status)
    /\ sender_alive' = FALSE

\* The iothread closure returns res (or panics): the receiver and the
\* futures go.
IoReturn(res) ==
    /\ io_result' = res
    /\ io_pc' = "done"
    /\ recv_alive' = FALSE
    /\ chan' = << >>
    /\ io_queue' = << >>

\* open_headstore(&output, &cpupool)? (125).
OpenHeadstore ==
    /\ im_pc = "headstore"
    /\ \E ok \in BOOLEAN :
          IF ok
          THEN /\ im_pc' = "spawn"
               /\ UNCHANGED << im_result, im_exit, sender_alive, im_failed >>
          ELSE /\ Return(Err("headstore"))
               /\ im_failed' = im_failed \cup {"headstore"}
    /\ UNCHANGED << import_params, im_sent, im_res, recv_alive, chan, io_pc, io_result,
                    io_seen, io_queue, io_stream_done, io_taken, io_ops >>
    /\ UNCHANGED not_import_vars

\* sync_channel(channel_size) and the spawn of the iothread (134-162).
SpawnIothread ==
    /\ im_pc = "spawn"
    /\ im_pc' = "open_repo"
    /\ io_pc' = "opening"
    /\ UNCHANGED << import_params, im_sent, im_res, im_result, im_exit, sender_alive,
                    recv_alive, chan, io_result, io_seen, io_queue, io_stream_done,
                    io_taken, io_ops, im_failed >>
    /\ UNCHANGED not_import_vars

\* open_repo(&input)? (164).
OpenRepo ==
    /\ im_pc = "open_repo"
    /\ \E ok \in BOOLEAN :
          IF ok
          THEN /\ im_pc' = "convert"
               /\ UNCHANGED << im_result, im_exit, sender_alive, im_failed >>
          ELSE /\ Return(Err("repo"))
               /\ im_failed' = im_failed \cup {"repo"}
    /\ UNCHANGED << import_params, im_sent, im_res, recv_alive, chan, io_pc, io_result,
                    io_seen, io_queue, io_stream_done, io_taken, io_ops >>
    /\ UNCHANGED not_import_vars

\* The conversion sends its next entry; the send waits while the channel
\* holds channel_size entries.
ConvertSend ==
    /\ im_pc = "convert"
    /\ im_sent < Len(im_entries)
    /\ recv_alive
    /\ ~channel_full(chan, channel_size)
    /\ chan' = Append(chan, im_entries[im_sent + 1])
    /\ im_sent' = im_sent + 1
    /\ UNCHANGED << import_params, im_pc, im_res, im_result, im_exit, sender_alive,
                    recv_alive, io_pc, io_result, io_seen, io_queue, io_stream_done,
                    io_taken, io_ops, im_failed >>
    /\ UNCHANGED not_import_vars

\* The conversion ends (176): with all entries sent (or with the rest given
\* up once the receiver is gone), with a failure of its own, or with the
\* failure of a send to a receiver that is gone. The sender is dropped with
\* the context.
ConvertReturns ==
    /\ im_pc = "convert"
    /\ \E how \in {"done", "failed", "disconnected"} :
          /\ how = "done" => im_sent = Len(im_entries) \/ ~recv_alive
          /\ how = "disconnected" => im_sent < Len(im_entries) /\ ~recv_alive
          /\ im_res' = IF how = "done" THEN Ok
                       ELSE IF how = "failed" THEN Err("convert") ELSE Err("send")
          /\ im_failed' = IF how = "failed" THEN im_failed \cup {"convert"} ELSE im_failed
    /\ im_pc' = "join"
    /\ sender_alive' = FALSE
    /\ UNCHANGED << import_params, im_sent, im_result, im_exit, recv_alive, chan, io_pc,
                    io_result, io_seen, io_queue, io_stream_done, io_taken, io_ops >>
    /\ UNCHANGED not_import_vars

\* iothread.join().expect(..)? and res (177-178): the expect panics if the
\* iothread panicked.
Join ==
    /\ im_pc = "join"
    /\ join_ready(io_pc)
    /\ IF io_result = Panic
       THEN MainPanics
       ELSE Return(join_result(io_result, im_res))
    /\ UNCHANGED << import_params, im_sent, im_res, recv_alive, chan, io_pc, io_result,
                    io_seen, io_queue, io_stream_done, io_taken, io_ops, im_failed >>
    /\ UNCHANGED not_import_vars

\* iothread: open_blobstore(..)? (142).
IoOpenBlobstore ==
    /\ io_pc = "opening"
    /\ im_exit = None
    /\ \E ok \in BOOLEAN :
          IF ok
          THEN /\ io_pc' = "running"
               /\ UNCHANGED << io_result, recv_alive, chan, io_queue, im_failed >>
          ELSE /\ IoReturn(open_blobstore_failure(blobtype))
               /\ im_failed' = im_failed \cup {"blobstore"}
    /\ UNCHANGED << import_params, im_sent, im_pc, im_res, im_result, im_exit,
                    sender_alive, io_seen, io_stream_done, io_taken, io_ops >>
    /\ UNCHANGED not_import_vars

\* buffer_unordered has room and takes the next entry of the channel: the
\* map closure saves a changeset, puts a manifest entry whose key is new,
\* and answers a repeated key with a ready future.
IoTake ==
    /\ io_pc = "running"
    /\ im_exit = None
    /\ ~io_stream_done
    /\ buffer_has_room(io_queue, channel_size)
    /\ chan # << >>
    /\ LET entry == Head(chan)
           fut == entry_future(io_seen, entry)
       IN  /\ chan' = Tail(chan)
           /\ io_taken' = Append(io_taken, entry)
           /\ io_seen' = IF entry.kind = "ManifestEntry"
                         THEN io_seen \cup {entry.key} ELSE io_seen
           /\ io_queue' = Append(io_queue, fut)
           /\ io_ops' = IF fut.kind = "ready" THEN io_ops
                        ELSE Append(io_ops, [kind |-> fut.kind, key |-> fut.key,
                                             value |-> fut.value])
    /\ UNCHANGED << import_params, im_sent, im_pc, im_res, im_result, im_exit,
                    sender_alive, recv_alive, io_pc, io_result, io_stream_done,
                    im_failed >>
    /\ UNCHANGED not_import_vars

\* The channel is empty and the sender dropped: receiverstream ends.
IoStreamEnd ==
    /\ io_pc = "running"
    /\ im_exit = None
    /\ ~io_stream_done
    /\ buffer_has_room(io_queue, channel_size)
    /\ chan = << >>
    /\ ~sender_alive
    /\ io_stream_done' = TRUE
    /\ UNCHANGED << import_params, im_sent, im_pc, im_res, im_result, im_exit,
                    sender_alive, recv_alive, chan, io_pc, io_result, io_seen, io_queue,
                    io_taken, io_ops, im_failed >>
    /\ UNCHANGED not_import_vars

\* The blob store completes an operation in flight.
BlobstoreOpDone ==
    /\ io_pc = "running"
    /\ im_exit = None
    /\ \E i \in 1..Len(io_queue) :
          /\ io_queue[i].st = "inflight"
          /\ io_queue' = [io_queue EXCEPT ![i].st = "ok"]
    /\ UNCHANGED << import_params, im_sent, im_pc, im_res, im_result, im_exit,
                    sender_alive, recv_alive, chan, io_pc, io_result, io_seen,
                    io_stream_done, io_taken, io_ops, im_failed >>
    /\ UNCHANGED not_import_vars

\* An attempt of an operation in flight fails: the retry layer of the
\* Manifold store waits put_delay(attempt) and tries again, or gives up;
\* the other stores fail at once.
BlobstoreOpFails ==
    /\ io_pc = "running"
    /\ im_exit = None
    /\ \E i \in 1..Len(io_queue) :
          /\ io_queue[i].st = "inflight"
          /\ LET f == io_queue[i]
                 delay == IF retrying(blobtype) THEN put_delay(f.attempt) ELSE None
             IN  IF delay # None
                 THEN /\ io_queue' = [io_queue EXCEPT ![i].attempt = f.attempt + 1,
                                                      ![i].waited = f.waited + delay.val]
                      /\ UNCHANGED im_failed
                 ELSE /\ io_queue' = [io_queue EXCEPT ![i].st = "failed"]
                      /\ im_failed' = im_failed \cup {f.kind}
    /\ UNCHANGED << import_params, im_sent, im_pc, im_res, im_result, im_exit,
                    sender_alive, recv_alive, chan, io_pc, io_result, io_seen,
                    io_stream_done, io_taken, io_ops >>
    /\ UNCHANGED not_import_vars

\* buffer_unordered is full or its stream has ended, and a future of it is
\* ready: for_each takes an Ok and goes on; an error ends core.run.
IoForEach ==
    /\ io_pc = "running"
    /\ im_exit = None
    /\ ~buffer_has_room(io_queue, channel_size) \/ io_stream_done
    /\ \E i \in 1..Len(io_queue) :
          /\ io_queue[i].st # "inflight"
          /\ IF io_queue[i].st = "ok"
             THEN /\ io_queue' = RemoveAt(io_queue, i)
                  /\ UNCHANGED << io_pc, io_result, recv_alive, chan >>
             ELSE IoReturn(Err(io_queue[i].kind))
    /\ UNCHANGED << import_params, im_sent, im_pc, im_res, im_result, im_exit,
                    sender_alive, io_seen, io_stream_done, io_taken, io_ops, im_failed >>
    /\ UNCHANGED not_import_vars

\* The stream has ended and no future is left: core.run returns Ok.
IoEnd ==
    /\ io_pc = "running"
    /\ im_exit = None
    /\ io_stream_done
    /\ io_queue = << >>
    /\ IoReturn(Ok)
    /\ UNCHANGED << import_params, im_sent, im_pc, im_res, im_result, im_exit,
                    sender_alive, io_seen, io_stream_done, io_taken, io_ops, im_failed >>
    /\ UNCHANGED not_import_vars

ImportInit ==
    /\ blobtype \in BlobstoreTypes
    /\ channel_size \in { channel_size_of(arg) : arg \in ChannelSizeArgs }
    /\ im_entries \in Conversions
    /\ im_sent = 0
    /\ im_pc = "headstore"
    /\ im_res = Running
    /\ im_result = Running
    /\ im_exit = None
    /\ sender_alive = TRUE
    /\ recv_alive = TRUE
    /\ chan = << >>
    /\ io_pc = "unborn"
    /\ io_result = Running
    /\ io_seen = {}
    /\ io_queue = << >>
    /\ io_stream_done = FALSE
    /\ io_taken = << >>
    /\ io_ops = << >>
    /\ im_failed = {}

\* No import is running.
ImportIdle ==
    /\ blobtype = "Files"
    /\ channel_size = 1
    /\ im_entries = << >>
    /\ im_sent = 0
    /\ im_pc = "done"
    /\ im_res = Ok
    /\ im_result = Ok
    /\ im_exit = None
    /\ sender_alive = FALSE
    /\ recv_alive = FALSE
    /\ chan = << >>
    /\ io_pc = "done"
    /\ io_result = Ok
    /\ io_seen = {}
    /\ io_queue = << >>
    /\ io_stream_done = FALSE
    /\ io_taken = << >>
    /\ io_ops = << >>
    /\ im_failed = {}

ImportNext ==
    \/ OpenHeadstore
    \/ SpawnIothread
    \/ OpenRepo
    \/ ConvertSend
    \/ ConvertReturns
    \/ Join
    \/ IoOpenBlobstore
    \/ IoTake
    \/ IoStreamEnd
    \/ BlobstoreOpDone
    \/ BlobstoreOpFails
    \/ IoForEach
    \/ IoEnd

(***************************************************************************)
(* compute_delta and the delta round trip of the tests (filelog.rs         *)
(* 290-335, 428-431).                                                      *)
(***************************************************************************)
\* The byte sequences have at most MaxBytes bytes.
MaxBytes == 3

\* The bytes of the inputs.
Bytes == {1, 2}

ByteSeqs == UNION { [1..n -> Bytes] : n \in 0..MaxBytes }

\* std::cmp::min.
min(a, b) == IF a <= b THEN a ELSE b

\* The item of b1.iter().zip_longest(b2.iter()) at position idx (from 0).
zip_longest_at(b1, b2, idx) ==
    IF idx < Len(b1) /\ idx < Len(b2)
    THEN [tag |-> "Both", v1 |-> b1[idx + 1], v2 |-> b2[idx + 1]]
    ELSE IF idx < Len(b1)
         THEN [tag |-> "Left", v1 |-> b1[idx + 1]]
         ELSE [tag |-> "Right", v |-> b2[idx + 1]]

\* The length of b1.iter().zip_longest(b2.iter()).
zip_longest_len(b1, b2) == IF Len(b1) >= Len(b2) THEN Len(b1) ELSE Len(b2)

\* A compute_delta that leaves the tail of a longer b1 in place.
trailing_cut_none(b1, b2) == << >>

\* compute_delta, lines 326-332: the fragment that removes the tail of b1
\* when b1 is longer than b2.
trailing_cut(b1, b2) ==
    IF Len(b1) > Len(b2)
    THEN << Fragment(Len(b2), Len(b1), << >>) >>
    ELSE << >>

\* compute_delta, lines 319-325: the fragment still open after the loop.
last_fragment(start, frag, b1) ==
    IF frag # << >>
    THEN << Fragment(start, min(start + Len(frag), Len(b1)), frag) >>
    ELSE << >>

\* One iteration of the loop of compute_delta (lines 294-318).
ComputeDeltaStep ==
    /\ cd_pc = "loop"
    /\ cd_idx < zip_longest_len(cd_b1, cd_b2)
    /\ LET val == zip_longest_at(cd_b1, cd_b2, cd_idx)
       IN  IF val.tag = "Both"
           THEN IF val.v1 = val.v2 /\ cd_frag # << >>
                THEN /\ cd_frags' = Append(cd_frags,
                                       Fragment(cd_start, cd_start + Len(cd_frag), cd_frag))
                     /\ cd_frag' = << >>
                     /\ UNCHANGED cd_start
                ELSE IF val.v1 # val.v2
                     THEN /\ cd_start' = IF cd_frag = << >> THEN cd_idx ELSE cd_start
                          /\ cd_frag' = Append(cd_frag, val.v2)
                          /\ UNCHANGED cd_frags
                     ELSE UNCHANGED << cd_start, cd_frag, cd_frags >>
           ELSE IF val.tag = "Left"
                THEN UNCHANGED << cd_start, cd_frag, cd_frags >>
                ELSE /\ cd_start' = IF cd_frag = << >> THEN cd_idx ELSE cd_start
                     /\ cd_frag' = Append(cd_frag, val.v)
                     /\ UNCHANGED cd_frags
    /\ cd_idx' = cd_idx + 1
    /\ UNCHANGED << cd_b1, cd_b2, cd_pc, cd_out >>
    /\ UNCHANGED not_delta_vars

\* The loop is over: the open fragment and the cut of the tail are pushed
\* and the Delta is built (lines 319-334).
ComputeDeltaEnd ==
    /\ cd_pc = "loop"
    /\ cd_idx = zip_longest_len(cd_b1, cd_b2)
    /\ cd_frags' = cd_frags \o last_fragment(cd_start, cd_frag, cd_b1)
                            \o trailing_cut(cd_b1, cd_b2)
    /\ cd_frag' = << >>
    /\ cd_pc' = "apply"
    /\ UNCHANGED << cd_b1, cd_b2, cd_idx, cd_start, cd_out >>
    /\ UNCHANGED not_delta_vars

\* sanitycheck_delta_computation (428-431): delta::apply(&b1, &delta).
DeltaApply ==
    /\ cd_pc = "apply"
    /\ cd_out' = apply(cd_b1, cd_frags)
    /\ cd_pc' = "done"
    /\ UNCHANGED << cd_b1, cd_b2, cd_idx, cd_start, cd_frag, cd_frags >>
    /\ UNCHANGED not_delta_vars

DeltaInit ==
    /\ cd_b1 \in ByteSeqs
    /\ cd_b2 \in ByteSeqs
    /\ cd_pc = "loop"
    /\ cd_idx = 0
    /\ cd_start = 0
    /\ cd_frag = << >>
    /\ cd_frags = << >>
    /\ cd_out = << >>

\* No delta is being computed.
DeltaIdle ==
    /\ cd_b1 = << >>
    /\ cd_b2 = << >>
    /\ cd_pc = "done"
    /\ cd_idx = 0
    /\ cd_start = 0
    /\ cd_frag = << >>
    /\ cd_frags = << >>
    /\ cd_out = << >>

DeltaNext ==
    \/ ComputeDeltaStep
    \/ ComputeDeltaEnd
    \/ DeltaApply

(***************************************************************************)
(* The specifications.                                                     *)
(***************************************************************************)
\* The resolver: one stream against one repository.
Init == ResolverInit /\ BundleIdle /\ BetweenIdle /\ UploadIdle /\ CommandsIdle /\ ImportIdle /\ DeltaIdle
Next == ResolverNext
Spec == Init /\ [][Next]_vars

\* One getbundle call, with bookmarks deleted beside it.
InitBundle == ResolverIdle /\ BundleInit /\ BetweenIdle /\ UploadIdle /\ CommandsIdle /\ ImportIdle /\ DeltaIdle
SpecBundle == InitBundle /\ [][BundleNext]_vars

\* One between call.
InitBetween == ResolverIdle /\ BundleIdle /\ BetweenInit /\ UploadIdle /\ CommandsIdle /\ ImportIdle /\ DeltaIdle
SpecBetween == InitBetween /\ [][BetweenNext]_vars

\* One batch of uploads.
InitUpload == ResolverIdle /\ BundleIdle /\ BetweenIdle /\ UploadInit /\ CommandsIdle /\ ImportIdle /\ DeltaIdle
SpecUpload == InitUpload /\ [][UploadBatchNext]_vars

\* A hello and a known call on one connection.
InitCommands == ResolverIdle /\ BundleIdle /\ BetweenIdle /\ UploadIdle /\ CommandsInit /\ ImportIdle /\ DeltaIdle
SpecCommands == InitCommands /\ [][CommandsNext]_vars

\* One run of blobimport.
InitImport ==
    ResolverIdle /\ BundleIdle /\ BetweenIdle /\ UploadIdle /\ CommandsIdle /\ ImportInit
    /\ DeltaIdle
SpecImport == InitImport /\ [][ImportNext]_vars

\* Two streams resolved side by side against one repository.
InitTwoStreams ==
    TwoStreamsInit /\ BundleIdle /\ BetweenIdle /\ UploadIdle /\ CommandsIdle
    /\ ImportIdle /\ DeltaIdle
SpecTwoStreams == InitTwoStreams /\ [][ResolverNext]_vars

\* One delta computed by compute_delta and applied.
InitDelta ==
    ResolverIdle /\ BundleIdle /\ BetweenIdle /\ UploadIdle /\ CommandsIdle /\ ImportIdle
    /\ DeltaInit
SpecDelta == InitDelta /\ [][DeltaNext]_vars

\* One between call on an executor that keeps polling the future while a
\* step of it is possible.
SpecBetweenFair == SpecBetween /\ WF_vars(BetweenNext)

\* The import with its threads scheduled and its blob-store operations and
\* conversion coming to an end.
SpecImportFair == SpecImport /\ WF_vars(ImportNext)

(***************************************************************************)
(* The test helpers of filelog.rs.                                         *)
(***************************************************************************)
\* filelog_to_deltaed (276-288): the full-text record of a Filelog.
filelog_to_deltaed(f) ==
    FilelogDeltaed(f.path.mpath,
        CgDeltaChunk(f.node, NULL_HASH, new_fulltext(f.blob),
                     unwrap_or(f.p1, NULL_HASH), unwrap_or(f.p2, NULL_HASH),
                     f.linknode))

\* The Filelogs quickcheck draws (Arbitrary for Filelog, 163-174).
OptionNodes == {None} \cup { Some(h) : h \in NodeHash \ {NULL_HASH} }
ArbitraryFilelogs ==
    { Filelog(RepoPath_file(path), node, p1, p2, linknode, blob) :
        path \in {"test", "test2"}, node \in NodeHash, p1 \in OptionNodes,
        p2 \in OptionNodes, linknode \in NodeHash, blob \in {<< >>, << 1 >>} }

(***************************************************************************)
(* Notions the properties of the resolver are stated with.                 *)
(***************************************************************************)
\* The nodes of the records before the i-th.
NodesBefore(in, i) == { in[j].chunk.node : j \in 1..(i - 1) }

\* The position of the first record of in that carries node n.
FirstIndex(in, n) ==
    CHOOSE j \in 1..Len(in) :
        in[j].chunk.node = n /\ \A k \in 1..(j - 1) : in[k].chunk.node # n

\* The full content of the i-th record of a stream whose bases are all
\* NULL_HASH or earlier nodes: its delta applied to the content of its base.
RECURSIVE FullContent(_, _)
FullContent(in, i) ==
    LET b == in[i].chunk.base
    IN  apply(IF b = NULL_HASH THEN << >> ELSE FullContent(in, FirstIndex(in, b)),
              in[i].chunk.delta)

DistinctNodes(in) ==
    \A i, j \in 1..Len(in) : i # j => in[i].chunk.node # in[j].chunk.node

BasesEarlier(in) ==
    \A i \in 1..Len(in) :
        in[i].chunk.base = NULL_HASH \/ in[i].chunk.base \in NodesBefore(in, i)

\* The records whose base can be found nowhere when they are decoded.
Unresolvable(in, r, i) ==
    /\ in[i].chunk.base # NULL_HASH
    /\ in[i].chunk.base \notin NodesBefore(in, i)
    /\ in[i].chunk.base \notin DOMAIN r

FetchesOf(s, n) == { e \in fetches : e.stream = s /\ e.base = n }
AppliedOf(s, n) == { e \in applied : e.stream = s /\ e.node = n }

(***************************************************************************)
(* C1. A stream of distinct nodes whose bases are NULL_HASH or earlier     *)
(* nodes resolves, against the empty repository, to one Filelog per        *)
(* record, in input order, the i-th blob being the i-th delta applied to   *)
(* the full content of its base.                                           *)
(***************************************************************************)
C1_ChainResolves ==
    \A s \in Streams :
        (repo = EmptyRepo /\ DistinctNodes(deltaed[s]) /\ BasesEarlier(deltaed[s]))
        => /\ result[s] \in {Running, Ok}
           /\ wait[s] = 0
           /\ Len(filelogs[s]) = consumed[s]
           /\ result[s] = Ok => consumed[s] = Len(deltaed[s])
           /\ \A k \in 1..Len(filelogs[s]) :
                 /\ filelogs[s][k].node = deltaed[s][k].chunk.node
                 /\ filelogs[s][k].blob = FullContent(deltaed[s], k)

\* Three records resolved: the second against the first, the third against
\* the first again (not its predecessor), all with content.
C1_Witness ==
    /\ repo = EmptyRepo
    /\ result[1] = Ok
    /\ Len(deltaed[1]) = 3
    /\ DistinctNodes(deltaed[1])
    /\ deltaed[1][1].chunk.base = NULL_HASH
    /\ deltaed[1][2].chunk.base = deltaed[1][1].chunk.node
    /\ deltaed[1][3].chunk.base = deltaed[1][1].chunk.node
    /\ deltaed[1][1].chunk.node # NULL_HASH
    /\ filelogs[1][3].blob = << 1, 1 >>
    /\ filelogs[1][2].blob = << 1 >>

(***************************************************************************)
(* C2. As claimed: a stream holding a record whose base is not NULL_HASH,  *)
(* not an earlier node and not in the repository never resolves.           *)
(***************************************************************************)
C2_Original ==
    \A s \in Streams :
        result[s] = Ok
        => \A i \in 1..Len(deltaed[s]) : ~Unresolvable(deltaed[s], repo, i)

\* C2, amended: such a record fails the stream when its own node is not the
\* node of an earlier record (a later record carrying the base does not
\* help); two dependent records in forward order resolve.
C2_MissingBaseFails ==
    \A s \in Streams :
        LET in == deltaed[s] IN
        /\ result[s] = Ok
           => \A i \in 1..Len(in) :
                 ~(Unresolvable(in, repo, i) /\ in[i].chunk.node \notin NodesBefore(in, i))
        /\ \A i \in 1..consumed[s] :
              (Unresolvable(in, repo, i) /\ in[i].chunk.node \notin NodesBefore(in, i)
                 /\ wait[s] # i)
              => result[s].tag = "Err" /\ consumed[s] = i
        /\ (Len(in) = 2 /\ in[1].chunk.base = NULL_HASH /\ in[1].chunk.node # NULL_HASH
              /\ in[2].chunk.base = in[1].chunk.node)
           => result[s] \in {Running, Ok}

\* The reversed pair has failed on its first record, whose base is the node
\* of the second.
C2_Witness ==
    /\ repo = EmptyRepo
    /\ Len(deltaed[1]) = 2
    /\ deltaed[1][2].chunk.base = NULL_HASH
    /\ deltaed[1][1].chunk.base = deltaed[1][2].chunk.node
    /\ deltaed[1][1].chunk.node # deltaed[1][2].chunk.node
    /\ result[1].tag = "Err"
    /\ consumed[1] = 1
    /\ filelogs[1] = << >>

C4_Original ==
    \A s \in Streams : \A i \in 1..consumed[s] :
        LET b == deltaed[s][i].chunk.base
        IN  (b # NULL_HASH /\ b \in NodesBefore(deltaed[s], i)) => FetchesOf(s, b) = {}

\* C4, amended: get_file_content(b) is called only for a base b that is not
\* a key of the cache when the record is decoded, so a record whose base is
\* an earlier node never causes a fetch; the fetches recorded for a node
\* all come from records decoded before the node entered the cache.
C4_FetchOnlyOnMiss ==
    [][\A e \in fetches' \ fetches :
          /\ e.base \notin DOMAIN bytes_cache[e.stream]
          /\ e.base = deltaed[e.stream][e.rec].chunk.base
          /\ e.base \notin NodesBefore(deltaed[e.stream], e.rec)
          /\ e.rec = consumed'[e.stream]
          /\ \A d \in fetches : d.stream = e.stream => d.rec < e.rec]_vars

\* Two records have used the first record's node as their base and the
\* repository, which holds that node, was never asked for it.
C4_Witness ==
    /\ repo = FullRepo
    /\ consumed[1] = 3
    /\ deltaed[1][1].chunk.node # NULL_HASH
    /\ deltaed[1][2].chunk.base = deltaed[1][1].chunk.node
    /\ deltaed[1][3].chunk.base = deltaed[1][1].chunk.node
    /\ DistinctNodes(deltaed[1])
    /\ FetchesOf(1, deltaed[1][1].chunk.node) = {}
    /\ Len(filelogs[1]) = 3

(***************************************************************************)
(* C5. Within a stream delta::apply runs at most once per node, however    *)
(* many records use the node as base or repeat it, and all of them see     *)
(* the same bytes.                                                         *)
(***************************************************************************)
C5_OneDecodePerNode ==
    \A s \in Streams :
        /\ \A n \in NodeHash : Cardinality(AppliedOf(s, n)) <= 1
        /\ \A k \in 1..Len(filelogs[s]) :
              LET f == filelogs[s][k]
                  r == deltaed[s][k].chunk
              IN  /\ bytes_cache[s][f.node] = FutOk(f.blob)
                  /\ \A j \in 1..(k - 1) :
                        /\ filelogs[s][j].node = f.node => filelogs[s][j].blob = f.blob
                        /\ (filelogs[s][j].node = r.base /\ r.base # NULL_HASH
                              /\ r.node \notin NodesBefore(deltaed[s], k))
                           => f.blob = apply(filelogs[s][j].blob, r.delta)

\* A node with content was used as a base by the second record and
\* repeated, with another delta, by the third; it was applied once.
C5_Witness ==
    /\ result[1] = Ok
    /\ Len(filelogs[1]) = 3
    /\ deltaed[1][1].chunk.node # NULL_HASH
    /\ deltaed[1][2].chunk.base = deltaed[1][1].chunk.node
    /\ deltaed[1][2].chunk.node # deltaed[1][1].chunk.node
    /\ deltaed[1][3].chunk.node = deltaed[1][1].chunk.node
    /\ deltaed[1][3].chunk.delta # deltaed[1][1].chunk.delta
    /\ filelogs[1][1].blob = << 1 >>
    /\ Cardinality(AppliedOf(1, deltaed[1][1].chunk.node)) = 1

(***************************************************************************)
(* C6. The Filelog of a record carries the record's path as a File path,   *)
(* its node and linknode, and its parents with NULL_HASH as None; the      *)
(* one-record stream [filelog_to_deltaed(f)] resolves to [f].              *)
(***************************************************************************)
C6_MetadataPreserved ==
    \A s \in Streams :
        /\ \A k \in 1..Len(filelogs[s]) :
              LET f == filelogs[s][k]
                  r == deltaed[s][k]
              IN  /\ f.path = [variant |-> "File", mpath |-> r.path]
                  /\ f.node = r.chunk.node
                  /\ f.linknode = r.chunk.linknode
                  /\ (f.p1 = None) <=> (r.chunk.p1 = NULL_HASH)
                  /\ (f.p2 = None) <=> (r.chunk.p2 = NULL_HASH)
                  /\ f.p1 # None => f.p1 = [tag |-> "Some", val |-> r.chunk.p1]
                  /\ f.p2 # None => f.p2 = [tag |-> "Some", val |-> r.chunk.p2]
        /\ (Len(deltaed[s]) = 1 /\ result[s] # Running)
           => \A f \in ArbitraryFilelogs :
                 deltaed[s] = << filelog_to_deltaed(f) >>
                 => result[s] = Ok /\ filelogs[s] = << f >>

\* The full-text record of a Filelog with an empty blob, no p1 and a p2 has
\* been resolved.
C6_Witness ==
    /\ result[1] = Ok
    /\ \E f \in ArbitraryFilelogs :
          /\ f.blob = << >>
          /\ f.p1 = None
          /\ f.p2 # None
          /\ deltaed[1] = << filelog_to_deltaed(f) >>
          /\ filelogs[1] = << f >>

(***************************************************************************)
(* C7. As claimed: every emitted Filelog has a node and a linknode other   *)
(* than NULL_HASH.                                                         *)
(***************************************************************************)
C7_Original ==
    \A s \in Streams : \A k \in 1..Len(filelogs[s]) :
        filelogs[s][k].node # NULL_HASH /\ filelogs[s][k].linknode # NULL_HASH

\* C7, amended: the node and the linknode of an emitted Filelog are other
\* than NULL_HASH exactly when those of its record are.
C7_NonNullWhenRecordIs ==
    \A s \in Streams : \A k \in 1..Len(filelogs[s]) :
        /\ (filelogs[s][k].node # NULL_HASH) <=> (deltaed[s][k].chunk.node # NULL_HASH)
        /\ (filelogs[s][k].linknode # NULL_HASH)
              <=> (deltaed[s][k].chunk.linknode # NULL_HASH)

\* A Filelog with node NULL_HASH and one with linknode NULL_HASH were
\* emitted, beside one that has both.
C7_Witness ==
    /\ Len(filelogs[1]) = 3
    /\ filelogs[1][1].node = NULL_HASH
    /\ filelogs[1][2].linknode = NULL_HASH
    /\ filelogs[1][3].node # NULL_HASH
    /\ filelogs[1][3].linknode # NULL_HASH

(***************************************************************************)
(* C8. A record with base NULL_HASH is decoded by applying its delta to    *)
(* the empty buffer; neither the repository nor the cache is asked for     *)
(* NULL_HASH as a base, whatever they hold.                                *)
(***************************************************************************)
C8_NullBaseIsEmpty ==
    /\ \A e \in fetches \cup lookups : e.base # NULL_HASH
    /\ \A s \in Streams : \A i \in 1..consumed[s] :
          LET r == deltaed[s][i].chunk
          IN  (r.base = NULL_HASH /\ r.node \notin NodesBefore(deltaed[s], i))
              => /\ bytes_cache[s][r.node] = FutOk(r.delta[1].content)
                 /\ Cardinality({ e \in applied : e.stream = s /\ e.rec = i }) = 1
                 /\ { e \in fetches \cup lookups : e.stream = s /\ e.rec = i } = {}
                 /\ Len(filelogs[s]) >= i
                 /\ filelogs[s][i].blob = r.delta[1].content

\* The repository holds NULL_HASH and the cache has it as a key (the first
\* record's node); the second record, with base NULL_HASH, was decoded.
C8_Witness ==
    /\ repo = FullRepo
    /\ NULL_HASH \in DOMAIN repo
    /\ consumed[1] >= 2
    /\ deltaed[1][1].chunk.node = NULL_HASH
    /\ deltaed[1][1].chunk.delta = new_fulltext(<< 1 >>)
    /\ deltaed[1][2].chunk.base = NULL_HASH
    /\ deltaed[1][2].chunk.node # NULL_HASH
    /\ deltaed[1][2].chunk.delta = new_fulltext(<< >>)
    /\ NULL_HASH \in DOMAIN bytes_cache[1]
    /\ Len(filelogs[1]) >= 2
    /\ filelogs[1][2].blob = << >>

(***************************************************************************)
(* C9. As claimed: when the lookup of an enumerated bookmark returns None, *)
(* the entry is dropped and getbundle still completes, with a listkeys     *)
(* part holding exactly the pairs of the names that had a value. Here: in  *)
(* no state has getbundle, after a lookup that returned None, failed,      *)
(* returned other pairs, or come to a halt without a result.               *)
(***************************************************************************)
C9_Original ==
    gb_dropped # {}
    => \/ /\ gb_result.tag = "Ok"
          /\ Len(gb_result.bundle.parts) = 1
          /\ \A k \in 1..Len(gb_result.bundle.parts[1].items) :
                gb_result.bundle.parts[1].items[k][1] \notin gb_dropped
       \/ /\ gb_result = Running
          /\ ENABLED GetbundleStep

(***************************************************************************)
(* C10. The list of a pair holds the elements of the raw chain at the      *)
(* 0-based indices 1, 2, 4, 8, 16, ... below the chain's length, in that   *)
(* order, and nothing else; top (index 0) is never in it; a chain of 32    *)
(* elements gives the 5 elements at 1, 2, 4, 8, 16.                        *)
(***************************************************************************)
\* i is 1, 2, 4, 8, ...
RECURSIVE IsPowerOfTwo(_)
IsPowerOfTwo(i) == i = 1 \/ (i > 1 /\ i % 2 = 0 /\ IsPowerOfTwo(i \div 2))

\* The powers of two below len.
SampleIndices(len) == { i \in 1..(len - 1) : IsPowerOfTwo(i) }

\* The elements of raw at the powers of two (raw[1] has index 0).
Sampled(raw) ==
    [j \in 1..Cardinality(SampleIndices(Len(raw))) |-> raw[2 ^ (j - 1) + 1]]

C10_ExponentialSample ==
    /\ bt_pc = "walk" => bt_cur = Sampled(bt_raw)
    /\ Len(bt_out) = Len(bt_raws)
    /\ \A p \in 1..Len(bt_out) :
          LET raw == bt_raws[p]
              list == bt_out[p]
          IN  /\ list = Sampled(raw)
              /\ \A k \in 1..Len(list) : list[k] # bt_pairs[p][1]
              /\ Len(raw) = 32
                 => list = << raw[2], raw[3], raw[5], raw[9], raw[17] >>
    /\ bt_result.tag = "Ok" => bt_result.lists = bt_out /\ Len(bt_out) = Len(bt_pairs)

\* between has answered a pair whose raw chain has 32 elements with 5.
C10_Witness ==
    /\ bt_result.tag = "Ok"
    /\ Len(bt_raws) = 1
    /\ Len(bt_raws[1]) = 32
    /\ bt_raws[1][1] = bt_pairs[1][1]
    /\ Len(bt_result.lists[1]) = 5

(***************************************************************************)
(* C11. The walker for (top, bottom) emits top, p1(top), p1(p1(top)), ...  *)
(* along first parents only (NULL_HASH after a changeset without parents)  *)
(* and ends as soon as the current node is bottom or NULL_HASH: neither is *)
(* ever emitted, the chain is empty when top is bottom or NULL_HASH, it    *)
(* runs to the root when bottom is not a first-parent ancestor of top, and *)
(* the walk terminates.                                                    *)
(***************************************************************************)
\* The first parent of a changeset of the history, NULL_HASH for the root.
P1(n) ==
    LET ps == parents(n)
    IN  IF ps = Parents_None THEN NULL_HASH ELSE ps.p1

\* top, P1(top), P1(P1(top)), ... up to, and without, bottom or NULL_HASH.
RECURSIVE AncestorChain(_, _)
AncestorChain(top, bottom) ==
    IF top = bottom \/ top = NULL_HASH THEN << >>
    ELSE << top >> \o AncestorChain(P1(top), bottom)

\* The pairs whose top is NULL_HASH or a changeset of the history.
KnownTop(pair) == pair[1] \in 0..MaxHistory

\* s is the beginning of t.
IsPrefix(s, t) == Len(s) <= Len(t) /\ \A k \in 1..Len(s) : s[k] = t[k]

C11_WalkerChain ==
    /\ [](/\ (bt_pc = "walk" /\ KnownTop(bt_pairs[bt_idx]))
             => /\ IsPrefix(bt_raw, AncestorChain(bt_pairs[bt_idx][1], bt_pairs[bt_idx][2]))
                /\ ps_n = IF Len(bt_raw) = 0 THEN bt_pairs[bt_idx][1]
                          ELSE P1(bt_raw[Len(bt_raw)])
          /\ \A p \in 1..Len(bt_raws) :
                LET top == bt_pairs[p][1]
                    bottom == bt_pairs[p][2]
                    raw == bt_raws[p]
                IN  KnownTop(bt_pairs[p])
                    => /\ raw = AncestorChain(top, bottom)
                       /\ \A k \in 1..Len(raw) : raw[k] # bottom /\ raw[k] # NULL_HASH
                       /\ (top = bottom \/ top = NULL_HASH) => raw = << >>
                       /\ (top # NULL_HASH /\ top # bottom
                             /\ \A k \in 1..Len(raw) : P1(raw[k]) # bottom)
                          => raw[Len(raw)] = 1
          /\ (\A p \in 1..Len(bt_pairs) : KnownTop(bt_pairs[p]))
             => bt_result.tag # "Err")
    /\ <>(bt_pc = "done")

\* A walk from a merge has passed over the merge's second parent, which
\* was the bottom, and has run to the root.
C11_Witness ==
    /\ bt_result.tag = "Ok"
    /\ Len(bt_raws) = 1
    /\ parents(bt_pairs[1][1]).kind = "Two"
    /\ bt_pairs[1][2] = parents(bt_pairs[1][1]).p2
    /\ Len(bt_raws[1]) > 3
    /\ bt_raws[1][2] = parents(bt_pairs[1][1]).p1
    /\ bt_raws[1][Len(bt_raws[1])] = 1

(***************************************************************************)
(* C12. As claimed: within a batch at most one write is scheduled, in      *)
(* flight or completed, per (node, path) key; a Filelog whose key was seen *)
(* before schedules no second write.                                       *)
(***************************************************************************)
WritesOf(key) == { w \in 1..Len(up_writes) : up_writes[w].key = key }

C12_Original ==
    \A w \in 1..Len(up_writes) : Cardinality(WritesOf(up_writes[w].key)) <= 1

(***************************************************************************)
(* C13. As claimed: a decode call for a node that is already a key of the  *)
(* cache leaves the statistics alone, so the delta-size counters and the   *)
(* produced-length counters are each incremented at most once per distinct *)
(* node of a stream.                                                       *)
(***************************************************************************)
\* The distinct nodes the caches of the streams hold.
CachedNodes == { sn \in Streams \X NodeHash : sn[2] \in DOMAIN bytes_cache[sn[1]] }

C13_Original ==
    /\ stats.dsize <= Cardinality(CachedNodes)
    /\ stats.fsize <= Cardinality(CachedNodes)

(***************************************************************************)
(* C14. hello returns a map with the single key "capabilities" whose value *)
(* is the list lookup, known, getbundle, bundle2=<percent-encoded caps>;   *)
(* the decoded capability string is a newline-joined list holding HG20,    *)
(* listkeys and changegroup=02 each exactly once and nothing else,         *)
(* whatever the iteration order of the capability map.                     *)
(***************************************************************************)
\* The character two hex digits stand for.
hex_char(hi, lo) ==
    IF << hi, lo >> = << "0", "A" >> THEN "\n"
    ELSE IF << hi, lo >> = << "3", "D" >> THEN "="
    ELSE IF << hi, lo >> = << "2", "C" >> THEN ","
    ELSE IF << hi, lo >> = << "2", "5" >> THEN "%"
    ELSE "?"

RECURSIVE percent_decode(_)
percent_decode(str) ==
    IF Len(str) = 0 THEN << >>
    ELSE IF str[1] = "%" /\ Len(str) >= 3
         THEN << hex_char(str[2], str[3]) >> \o percent_decode(SubSeq(str, 4, Len(str)))
         ELSE << str[1] >> \o percent_decode(Tail(str))

\* The lines of a string.
RECURSIVE split_lines(_)
split_lines(str) ==
    IF \A k \in 1..Len(str) : str[k] # "\n" THEN << str >>
    ELSE LET i == CHOOSE k \in 1..Len(str) :
                     str[k] = "\n" /\ \A j \in 1..(k - 1) : str[j] # "\n"
         IN  << SubSeq(str, 1, i - 1) >> \o split_lines(SubSeq(str, i + 1, Len(str)))

C14_HelloCaps ==
    hl_result.tag = "Ok"
    => /\ DOMAIN hl_result.map = {"capabilities"}
       /\ LET caps == hl_result.map.capabilities
              encoded == SubSeq(caps[4], 9, Len(caps[4]))
              entries == split_lines(percent_decode(encoded))
          IN  /\ Len(caps) = 4
              /\ caps[1] = << "l", "o", "o", "k", "u", "p" >>
              /\ caps[2] = << "k", "n", "o", "w", "n" >>
              /\ caps[3] = << "g", "e", "t", "b", "u", "n", "d", "l", "e" >>
              /\ SubSeq(caps[4], 1, 8) = << "b", "u", "n", "d", "l", "e", "2", "=" >>
              /\ \A k \in 1..Len(encoded) : encoded[k] \notin {"\n", "=", ","}
              /\ Len(entries) = 3
              /\ { entries[k] : k \in 1..3 }
                   = { << "H", "G", "2", "0" >>,
                       << "l", "i", "s", "t", "k", "e", "y", "s" >>,
                       << "c", "h", "a", "n", "g", "e", "g", "r", "o", "u", "p", "=",
                          "0", "2" >> }

\* hello has answered with the map iterating changegroup first and HG20
\* last: bundle2=changegroup%3D02%0Alistkeys%0AHG20.
C14_Witness ==
    /\ hl_result.tag = "Ok"
    /\ Len(hl_order[1].value) = 1
    /\ hl_order[3].key = << "H", "G", "2", "0" >>
    /\ hl_result.map.capabilities[4]
         = << "b", "u", "n", "d", "l", "e", "2", "=",
              "c", "h", "a", "n", "g", "e", "g", "r", "o", "u", "p", "%", "3", "D",
              "0", "2", "%", "0", "A", "l", "i", "s", "t", "k", "e", "y", "s",
              "%", "0", "A", "H", "G", "2", "0" >>

(***************************************************************************)
(* C15. getbundle builds an uncompressed bundle2 that has a listkeys part  *)
(* for the namespace "bookmarks" exactly when args.listkeys contains       *)
(* "bookmarks"; when it does not, the bookmarks store is never read; an    *)
(* error opening the store is the failed result of getbundle.              *)
(***************************************************************************)
BookmarkParts(bundle) ==
    { k \in 1..Len(bundle.parts) :
        bundle.parts[k].type = "listkeys" /\ bundle.parts[k].namespace = "bookmarks" }

C15_GetbundleParts ==
    /\ gb_bundle.compressor = "Uncompressed"
    /\ gb_result.tag = "Ok"
       => /\ gb_result.bundle.compressor = "Uncompressed"
          /\ (BookmarkParts(gb_result.bundle) # {}) <=> ("bookmarks" \in gb_args)
          /\ Cardinality(BookmarkParts(gb_result.bundle)) = Len(gb_result.bundle.parts)
    /\ gb_pc = "items"
       => (BookmarkParts(gb_bundle) # {}) <=> ("bookmarks" \in gb_args)
    /\ "bookmarks" \notin gb_args
       => /\ gb_opened = 0
          /\ gb_keys = {}
          /\ gb_get = None
          /\ gb_result.tag # "Err"
    /\ gb_result.tag = "Err"
       => /\ "bookmarks" \in gb_args
          /\ gb_opened = 1
          /\ gb_pc = "done"
          /\ gb_bundle.parts = << >>

\* getbundle has answered a call that asked for the keys of another
\* namespace only, over a store that holds bookmarks: no part, no read.
C15_Witness ==
    /\ gb_result.tag = "Ok"
    /\ gb_args = {"phases"}
    /\ DOMAIN bookmarks # {}
    /\ gb_result.bundle.parts = << >>
    /\ gb_opened = 0

(***************************************************************************)
(* C16. known(nodes) returns one boolean per node, the i-th being the      *)
(* result of changeset_exists(nodes[i]), with the input order and repeated *)
(* nodes kept, in whatever order the checks complete; when a check fails,  *)
(* the call fails.                                                         *)
(***************************************************************************)
\* Whether a hash names a changeset of the history.
IsChangeset(n) == 1 <= n /\ n <= MaxHistory

C16_KnownInOrder ==
    /\ kn_pc = "joining"
       => /\ Len(kn_futs) = Len(kn_nodes)
          /\ \A k \in 1..Len(kn_futs) :
                kn_futs[k].st = "ok" => kn_futs[k].val = IsChangeset(kn_nodes[k])
    /\ kn_result.tag = "Ok"
       => /\ Len(kn_result.list) = Len(kn_nodes)
          /\ \A k \in 1..Len(kn_nodes) : kn_result.list[k] = IsChangeset(kn_nodes[k])
          /\ Len(kn_completed) = Len(kn_nodes)
    /\ kn_result.tag # "Err"
       => Cardinality({ k \in 1..Len(kn_futs) : kn_futs[k].st = "ok" }) = Len(kn_completed)
    /\ kn_result.tag = "Err" => kn_pc = "done"

\* known has answered [true, false, true] for a list that repeats its
\* first node in the third place, the third check having completed first.
C16_Witness ==
    /\ kn_result.tag = "Ok"
    /\ kn_completed = << 3, 1, 2 >>
    /\ kn_nodes = << ONES_HASH, MaxHistory + 1, ONES_HASH >>
    /\ kn_result.list = << TRUE, FALSE, TRUE >>

(***************************************************************************)
(* C17. The I/O worker of the importer calls blobstore.put at most once    *)
(* per distinct manifest-entry key, for the first entry that carries the   *)
(* key; later entries with the key complete without a put; every           *)
(* Changeset entry is saved each time it is received.                      *)
(***************************************************************************)
PutsOf(key) ==
    { i \in 1..Len(io_ops) : io_ops[i].kind = "put" /\ io_ops[i].key = key }

\* The places of io_taken that hold a manifest entry with the key.
TakenWith(key) ==
    { j \in 1..Len(io_taken) :
        io_taken[j].kind = "ManifestEntry" /\ io_taken[j].key = key }

\* The smallest number of a non-empty set of numbers.
Least(S) == CHOOSE x \in S : \A y \in S : x <= y

C17_PutOncePerKey ==
    /\ \A key \in {"k1", "k2"} :
          /\ Cardinality(PutsOf(key)) <= 1
          /\ (PutsOf(key) # {}) <=> (TakenWith(key) # {})
          /\ \A i \in PutsOf(key) :
                io_ops[i].value = io_taken[Least(TakenWith(key))].value
    /\ Cardinality({ i \in 1..Len(io_ops) : io_ops[i].kind = "save" })
         = Cardinality({ j \in 1..Len(io_taken) : io_taken[j].kind = "Changeset" })
    /\ \A i \in 1..Len(io_queue) : io_queue[i].kind = "ready" => io_queue[i].st = "ok"
    /\ (io_result = Ok /\ im_res = Ok /\ io_pc = "done" /\ im_pc = "done")
       => io_taken = im_entries

\* The worker has finished a run in which it received key k1 twice, with
\* two values, and a changeset: one put, of the first value, and one save.
C17_Witness ==
    /\ im_pc = "done"
    /\ im_result = Ok
    /\ io_taken = << ManifestEntry("k1", 2), ManifestEntry("k1", 1), Changeset("c1") >>
    /\ io_ops = << [kind |-> "put", key |-> "k1", value |-> 2],
                   [kind |-> "save", key |-> "c1", value |-> 0] >>

(***************************************************************************)
(* C18. The channel between the conversion and the I/O worker never holds  *)
(* more than channel_size entries (1000 unless set); a send into a full    *)
(* channel waits until the worker has taken an entry; the worker never has *)
(* more than channel_size blob-store operations in flight.                 *)
(***************************************************************************)
InFlight == { i \in 1..Len(io_queue) : io_queue[i].st = "inflight" }

C18_BoundedChannel ==
    /\ [](/\ Len(chan) <= channel_size
          /\ Len(io_queue) <= channel_size
          /\ Cardinality(InFlight) <= channel_size
          /\ channel_size \in ChannelSizes \cup {1000})
    /\ [][/\ Len(chan) = channel_size => im_sent' = im_sent
          /\ im_sent' # im_sent
             => /\ im_sent' = im_sent + 1
                /\ chan' = Append(chan, im_entries[im_sent'])
          /\ Len(chan') < Len(chan) /\ recv_alive'
             => /\ Len(io_taken') = Len(io_taken) + 1
                /\ io_taken'[Len(io_taken')] = Head(chan)]_vars

\* The channel is full and the worker has channel_size operations in flight,
\* while the conversion still has an entry to send.
C18_Witness ==
    /\ channel_size \in ChannelSizes
    /\ Len(chan) = channel_size
    /\ Cardinality(InFlight) = channel_size
    /\ im_pc = "convert"
    /\ im_sent < Len(im_entries)

(***************************************************************************)
(* C19. For the Manifold store the put delay of attempt a is 100 * 4^a ms  *)
(* for a <= 3 (100, 400, 1600, 6400) and there is none for a > 3: a put    *)
(* that keeps failing is retried four times, having waited 8500 ms in all, *)
(* and then fails, and its failure becomes the failure of the worker.      *)
(***************************************************************************)
RECURSIVE TotalDelay(_)
TotalDelay(attempt) ==
    IF attempt = 0 THEN 0
    ELSE TotalDelay(attempt - 1) + 100 * 4 ^ (attempt - 1)

FailedOps == { i \in 1..Len(io_queue) : io_queue[i].st = "failed" }

C19_RetrySchedule ==
    /\ [](/\ put_delay(0) = Some(100)
          /\ put_delay(1) = Some(400)
          /\ put_delay(2) = Some(1600)
          /\ put_delay(3) = Some(6400)
          /\ \A a \in 0..3 : put_delay(a) = Some(100 * 4 ^ a)
          /\ \A a \in 4..MaxAttempt : put_delay(a) = None
          /\ \A i \in 1..Len(io_queue) :
                LET f == io_queue[i]
                IN  /\ f.attempt \in 0..4
                    /\ f.waited = TotalDelay(f.attempt)
                    /\ ~retrying(blobtype) => f.attempt = 0
                    /\ retrying(blobtype) /\ f.st = "failed"
                       => f.attempt = 4 /\ f.waited = 8500
          /\ FailedOps # {} => io_result = Running)
    /\ (FailedOps # {}) ~> (io_result.tag = "Err" \/ im_exit = Some(1))

\* A put to the Manifold store has failed after its fourth retry.
C19_Witness ==
    /\ blobtype = "Manifold"
    /\ \E i \in FailedOps :
          /\ io_queue[i].kind = "put"
          /\ io_queue[i].attempt = 4
          /\ io_queue[i].waited = 8500

(***************************************************************************)
(* C20. The importer exits non-zero on any failure. As stated: whenever    *)
(* opening the input repo, the head store or the blob store fails, a put   *)
(* or save of the worker fails, or the conversion fails, run_blobimport    *)
(* returns an error and the process exits with status 1; it returns Ok     *)
(* only when the conversion and the worker both finished without error.    *)
(***************************************************************************)
OkOnlyWhenBothOk ==
    im_result = Ok
    => /\ im_res = Ok
       /\ io_result = Ok
       /\ im_failed = {}
       /\ im_exit = Some(0)

C20_Original ==
    im_pc = "done"
    => /\ im_failed # {} => im_result.tag = "Err" /\ im_exit = Some(1)
       /\ OkOnlyWhenBothOk

\* C20 as the code has it: the failures that are returned as errors end the
\* process with status 1; the Manifold store is constructed by a call that
\* panics instead of returning an error, the join of the panicked iothread
\* panics in turn, and the process ends with the panic status without
\* run_blobimport returning (unless opening the input repo failed first).
ManifoldOpenPanicked ==
    /\ blobtype = "Manifold"
    /\ "blobstore" \in im_failed
    /\ io_result = Panic

C20_ExitNonZero ==
    /\ io_result = Panic => ManifoldOpenPanicked
    /\ im_pc = "done"
       => /\ im_result.tag \in {"Ok", "Err", "Panic"}
          /\ im_failed # {} => im_exit \in {Some(1), Some(panic_status)}
          /\ im_failed # {} /\ ~ManifoldOpenPanicked
             => im_result.tag = "Err" /\ im_exit = Some(1)
          /\ im_result.tag = "Err" <=> im_exit = Some(1)
          /\ im_result = Panic <=> im_exit = Some(panic_status)
          /\ im_result = Panic => ManifoldOpenPanicked /\ im_res # Running
          /\ ManifoldOpenPanicked /\ im_result.tag = "Err"
             => im_result = Err("repo") \/ im_result = Err("headstore")
          /\ OkOnlyWhenBothOk

\* The Manifold store could not be constructed: the process has ended with
\* the panic status and run_blobimport has returned nothing.
C20_Witness ==
    /\ im_pc = "done"
    /\ blobtype = "Manifold"
    /\ im_failed = {"blobstore"}
    /\ im_result = Panic
    /\ im_exit = Some(panic_status)

(***************************************************************************)
(* C21. For all byte sequences b1 and b2 the delta that compute_delta      *)
(* builds between them, applied to b1, gives b2, whichever of the two is   *)
(* empty or longer; and the full-text delta of b applied to the empty      *)
(* sequence gives b.                                                       *)
(***************************************************************************)
\* The fragments are in order, do not overlap and lie within the text.
WellFormed(frags, len) ==
    /\ \A k \in 1..Len(frags) :
          /\ 0 <= frags[k].start
          /\ frags[k].start <= frags[k].end
          /\ frags[k].end <= len
    /\ \A k \in 1..(Len(frags) - 1) : frags[k].end <= frags[k + 1].start

C21_DeltaRoundTrip ==
    /\ WellFormed(cd_frags, Len(cd_b1))
    /\ cd_pc = "done" => cd_out = cd_b2
    /\ apply(<< >>, new_fulltext(cd_b2)) = cd_b2

\* A longer b1 whose delta changes a byte and cuts the tail has been applied.
C21_Witness ==
    /\ cd_pc = "done"
    /\ cd_b1 = << 1, 2, 1 >>
    /\ cd_b2 = << 2 >>
    /\ cd_frags = << Fragment(0, 1, << 2 >>), Fragment(1, 3, << >>) >>
    /\ cd_out = cd_b2

(***************************************************************************)
(* C22. Within one stream the records are decoded in arrival order and one *)
(* at a time: decode is called for a record only when every earlier record *)
(* has been decoded and its Filelog emitted, and the cache holds nodes of   *)
(* the records taken only; so a record whose base is the node of the       *)
(* record just before it finds that base in the cache, resolved.           *)
(***************************************************************************)
RecEvents(evs, s, i) == { e \in evs : e.stream = s /\ e.rec = i }

C22_Sequential ==
    /\ [](\A s \in Streams :
            /\ DOMAIN bytes_cache[s] \subseteq NodesBefore(deltaed[s], consumed[s] + 1)
            /\ wait[s] # 0 => wait[s] = consumed[s]
            /\ Len(filelogs[s]) \in {consumed[s], consumed[s] - 1}
            /\ wait[s] # 0 => Len(filelogs[s]) = consumed[s] - 1
            /\ \A k \in 1..Len(filelogs[s]) :
                  filelogs[s][k].node = deltaed[s][k].chunk.node)
    /\ [][\A s \in Streams :
            consumed'[s] # consumed[s]
            => LET i == consumed'[s]
                   in == deltaed[s]
               IN  /\ i = consumed[s] + 1
                   /\ wait[s] = 0
                   /\ result[s] = Running
                   /\ Len(filelogs[s]) = i - 1
                   /\ \A k \in 1..(i - 1) :
                         bytes_cache[s][in[k].chunk.node].st = "ok"
                   /\ (i > 1 /\ in[i].chunk.base # NULL_HASH
                         /\ in[i].chunk.base = in[i - 1].chunk.node)
                      => /\ cache_get(bytes_cache[s], in[i].chunk.base) # None
                         /\ RecEvents(fetches', s, i) = {}
                         /\ wait'[s] = 0
                         /\ Len(filelogs'[s]) = i]_vars

\* The first record waited for the repository; the second, whose base is
\* the node of the first, was decoded after it without a fetch.
C22_Witness ==
    /\ repo = FullRepo
    /\ Len(filelogs[1]) = 2
    /\ deltaed[1][1].chunk.node # NULL_HASH
    /\ deltaed[1][1].chunk.base # NULL_HASH
    /\ deltaed[1][2].chunk.node # deltaed[1][1].chunk.node
    /\ deltaed[1][2].chunk.base = deltaed[1][1].chunk.node
    /\ RecEvents(fetches, 1, 1) # {}
    /\ RecEvents(fetches, 1, 2) = {}
    /\ RecEvents(lookups, 1, 2) # {}

(***************************************************************************)
(* C23. For every input stream, with the same node in several records or   *)
(* not, a node is inserted into the cache at most once and every insertion *)
(* finds its key absent: decode never panics with its "Logic error".       *)
(***************************************************************************)
C23_InsertOnce ==
    /\ [](/\ \A s \in Streams : result[s] # Panic
          /\ stats.dsize = Cardinality(CachedNodes))
    /\ [][\A s \in Streams :
            LET old == DOMAIN bytes_cache[s]
                new == DOMAIN bytes_cache'[s]
            IN  \/ new = old /\ (consumed'[s] # consumed[s] => stats'.dsize = stats.dsize)
                \/ /\ consumed'[s] = consumed[s] + 1
                   /\ deltaed[s][consumed'[s]].chunk.node \notin old
                   /\ new = old \cup {deltaed[s][consumed'[s]].chunk.node}
                   /\ stats'.dsize = stats.dsize + 1]_vars

\* A stream of three records, the third with the node of the first, has
\* been resolved with two insertions.
C23_Witness ==
    /\ result[1] = Ok
    /\ Len(deltaed[1]) = 3
    /\ Len(filelogs[1]) = 3
    /\ deltaed[1][3].chunk.node = deltaed[1][1].chunk.node
    /\ deltaed[1][2].chunk.node # deltaed[1][1].chunk.node
    /\ stats.dsize = 2
    /\ Cardinality(DOMAIN bytes_cache[1]) = 2

(***************************************************************************)
(* C24. The delta cache belongs to one stream: a call starts with an empty *)
(* cache, and of two streams resolved against one repository, however     *)
(* their steps interleave, neither is served a base from the cache of the  *)
(* other: a base that the stream itself has not decoded is fetched from    *)
(* the repository, and the record fails if the repository lacks it.        *)
(***************************************************************************)
Other(s) == CHOOSE t \in Streams : t # s

\* Record i of stream s is new to s and so is its base, which is not NULL.
ForeignBase(s, i) ==
    LET in == deltaed[s]
    IN  /\ in[i].chunk.base # NULL_HASH
        /\ in[i].chunk.node \notin NodesBefore(in, i)
        /\ in[i].chunk.base \notin NodesBefore(in, i)

C24_CachePerStream ==
    \A s \in Streams :
        /\ consumed[s] = 0 => bytes_cache[s] = DeltaCache_new
        /\ DOMAIN bytes_cache[s] \subseteq NodesBefore(deltaed[s], consumed[s] + 1)
        /\ \A i \in 1..consumed[s] :
              ForeignBase(s, i)
              => LET b == deltaed[s][i].chunk.base
                 IN  /\ [stream |-> s, rec |-> i, base |-> b] \in fetches
                     /\ (wait[s] # i /\ b \notin DOMAIN repo)
                        => /\ result[s].tag = "Err"
                           /\ Len(filelogs[s]) = i - 1
                     /\ (wait[s] # i /\ b \in DOMAIN repo)
                        => /\ Len(filelogs[s]) >= i
                           /\ filelogs[s][i].blob = apply(repo[b], deltaed[s][i].chunk.delta)

\* One stream has decoded a node and holds it in its cache; the other, with
\* a record based on that node, asked the empty repository and failed.
C24_Witness ==
    \E s \in Streams :
        LET t == Other(s)
        IN  /\ repo = EmptyRepo
            /\ result[t] = Ok
            /\ Len(deltaed[s]) >= 1
            /\ ForeignBase(s, 1)
            /\ deltaed[s][1].chunk.base \in DOMAIN bytes_cache[t]
            /\ bytes_cache[t][deltaed[s][1].chunk.base].st = "ok"
            /\ [stream |-> s, rec |-> 1, base |-> deltaed[s][1].chunk.base] \in fetches
            /\ result[s].tag = "Err"

(***************************************************************************)
(* C25. When the decode of a record with a base other than NULL_HASH fails *)
(* for want of the base's bytes, be the base asked of the repository or    *)
(* taken from a cache entry that failed, the error carries the context     *)
(* "While looking for base <base> to apply on delta <node>" with the base  *)
(* and node of that record; a record with base NULL_HASH never fails so.   *)
(***************************************************************************)
\* "While looking for base <base> to apply on delta <node>".
LookingForBase(base, node) == [base |-> base, node |-> node]

\* The future decode builds for (node, base) over a cache whose entry for
\* the base has failed with err, polled.
OverFailedBase(node, base, delta, err) ==
    LET cache == cache_insert(DeltaCache_new, base, FutErr(err))
    IN  poll_future(cache, decode_vec(cache, node, Some(base), delta))

C25_BaseContext ==
    /\ \A s \in Streams :
          /\ result[s].tag = "Err"
             => LET chunk == deltaed[s][consumed[s]].chunk
                IN  /\ chunk.base # NULL_HASH
                    /\ result[s].err.msg = "MissingBase"
                    /\ result[s].err.context = << LookingForBase(chunk.base, chunk.node) >>
          /\ \A n \in DOMAIN bytes_cache[s] :
                bytes_cache[s][n].st = "err"
                => /\ n = deltaed[s][consumed[s]].chunk.node
                   /\ result[s].tag = "Err"
                   /\ bytes_cache[s][n].err = result[s].err
          /\ \A i \in 1..consumed[s] :
                (deltaed[s][i].chunk.base = NULL_HASH /\ wait[s] # i)
                => (i < consumed[s] \/ result[s].tag # "Err")
    /\ \A s \in Streams : \A i \in 1..Len(deltaed[s]) :
          LET n == deltaed[s][i].chunk.node
              b == deltaed[s][i].chunk.base
              d == deltaed[s][i].chunk.delta
              got == OverFailedBase(n, b, d, MissingBase)
              again == OverFailedBase(n, b, d, with_context(MissingBase, THREES_HASH, b))
          IN  IF b # NULL_HASH
              THEN /\ got = FutErr([msg |-> "MissingBase",
                                    context |-> << LookingForBase(b, n) >>])
                   /\ again.st = "err"
                   /\ Head(again.err.context) = LookingForBase(b, n)
              ELSE decode_vec(DeltaCache_new, n, decode_base(deltaed[s][i].chunk), d).st = "ok"

\* The second record, new to the stream and based on a node found nowhere,
\* has failed with the context of its base and node; the first was emitted.
C25_Witness ==
    /\ repo = EmptyRepo
    /\ result[1].tag = "Err"
    /\ consumed[1] = 2
    /\ Len(filelogs[1]) = 1
    /\ deltaed[1][1].chunk.node = ONES_HASH
    /\ deltaed[1][2].chunk.node = TWOS_HASH
    /\ deltaed[1][2].chunk.base = THREES_HASH
    /\ result[1].err.context = << LookingForBase(THREES_HASH, TWOS_HASH) >>

(***************************************************************************)
(* C26. The ancestor walker is lazy: at most one changeset fetch is         *)
(* outstanding; the fetch for an element is issued by a poll, after all    *)
(* earlier elements have been emitted; bottom and NULL_HASH are never      *)
(* fetched; a completed walk has fetched as many changesets as its raw     *)
(* chain is long.                                                          *)
(***************************************************************************)
RECURSIVE Flatten(_)
Flatten(seqs) == IF seqs = << >> THEN << >> ELSE Head(seqs) \o Flatten(Tail(seqs))

\* The pair taken last is still being walked (or its walk has failed).
WalkOpen == Len(bt_raws) < bt_idx

C26_LazyWalk ==
    /\ [](/\ cs_fetches = Flatten(bt_raws)
                            \o (IF WalkOpen THEN bt_raw ELSE << >>)
                            \o (IF WalkOpen /\ ps_wait_cs # None
                                THEN << ps_wait_cs.val >> ELSE << >>)
          /\ ps_wait_cs # None => bt_pc \in {"walk", "done"} /\ ps_wait_cs.val = ps_n
          /\ bt_result.tag = "Ok"
             => /\ Len(bt_raws) = Len(bt_pairs)
                /\ cs_fetches = Flatten(bt_raws)
          /\ \A k \in 1..Len(bt_raws) :
                \A j \in 1..Len(bt_raws[k]) :
                    bt_raws[k][j] \notin {bt_pairs[k][2], NULL_HASH})
    /\ [][cs_fetches' # cs_fetches
           => /\ bt_pc = "walk"
              /\ ps_wait_cs = None
              /\ ps_wait_cs' = Some(ps_n)
              /\ cs_fetches' = Append(cs_fetches, ps_n)
              /\ ps_n \notin {ps_bottom, NULL_HASH}
              /\ bt_raw' = bt_raw
              /\ Len(bt_raw) = enum_i]_vars

\* The walk from 6 down to 2 is complete: three elements, three fetches.
C26_Witness ==
    /\ bt_pc = "done"
    /\ bt_pairs = << << 6, 2 >> >>
    /\ bt_raws = << << 6, 5, 4 >> >>
    /\ cs_fetches = << 6, 5, 4 >>

(***************************************************************************)
(* C27. A record whose node is that of an earlier record of its stream is  *)
(* answered from the cache: its own base and delta are not used (no cache  *)
(* lookup of the base, no repository fetch, no delta applied), and its     *)
(* Filelog has the bytes of the first record with that node and its own    *)
(* path, parents and linknode.                                             *)
(***************************************************************************)
Repeated(in, i) == in[i].chunk.node \in NodesBefore(in, i)

C27_RepeatedNode ==
    \A s \in Streams :
        \A i \in 1..consumed[s] :
            Repeated(deltaed[s], i)
            => LET in == deltaed[s]
                   j == FirstIndex(in, in[i].chunk.node)
               IN  /\ RecEvents(lookups, s, i) = {}
                   /\ RecEvents(fetches, s, i) = {}
                   /\ RecEvents(applied, s, i) = {}
                   /\ wait[s] # i
                   /\ result[s].tag = "Err" => i < consumed[s]
                   /\ Len(filelogs[s]) >= i
                   /\ filelogs[s][i].blob = filelogs[s][j].blob
                   /\ filelogs[s][i] =
                        Filelog(RepoPath_file(in[i].path), in[i].chunk.node,
                                into_option(in[i].chunk.p1), into_option(in[i].chunk.p2),
                                in[i].chunk.linknode, filelogs[s][j].blob)

\* The second record repeats the node of the first with another path,
\* another delta and a base found nowhere: it is emitted with the bytes of
\* the first, and nothing was fetched.
C27_Witness ==
    /\ repo = EmptyRepo
    /\ result[1] = Ok
    /\ Len(filelogs[1]) = 2
    /\ deltaed[1][2].chunk.node = deltaed[1][1].chunk.node
    /\ deltaed[1][1].chunk.delta = new_fulltext(<< 1 >>)
    /\ deltaed[1][2].chunk.delta = new_fulltext(<< >>)
    /\ deltaed[1][2].chunk.base = THREES_HASH
    /\ deltaed[1][1].path = "test"
    /\ deltaed[1][2].path = "test2"
    /\ filelogs[1][2].blob = << 1 >>
    /\ filelogs[1][2].path = RepoPath_file("test2")
    /\ fetches = {}

(***************************************************************************)
(* C28. between answers its pairs independently and in order: one list per *)
(* pair, the i-th list being the sampled chain of the i-th pair with the   *)
(* sampling started anew at index 1; the pairs are walked one after the    *)
(* other; if a changeset fetch of any pair fails, the call fails and gives *)
(* no list at all.                                                         *)
(***************************************************************************)
\* What a pair is answered with when it is the only pair of a call.
AnswerOf(pair) == Sampled(AncestorChain(pair[1], pair[2]))

\* A pair whose walk asks for a changeset the repository does not have.
FailingPair(pair) == pair[1] \notin 0..MaxHistory /\ pair[1] # pair[2]

C28_PairsIndependent ==
    /\ [](/\ bt_idx <= Len(bt_pairs)
          /\ Len(bt_out) \in {bt_idx, bt_idx - 1}
          /\ bt_pc = "walk" => Len(bt_out) = bt_idx - 1
          /\ \A p \in 1..Len(bt_out) : bt_out[p] = AnswerOf(bt_pairs[p])
          /\ bt_result.tag = "Ok"
             => /\ bt_result.lists = [p \in 1..Len(bt_pairs) |-> AnswerOf(bt_pairs[p])]
                /\ \A p \in 1..Len(bt_pairs) : ~FailingPair(bt_pairs[p])
          /\ bt_result.tag = "Err"
             => /\ DOMAIN bt_result = {"tag", "err"}
                /\ FailingPair(bt_pairs[bt_idx])
                /\ \A p \in 1..(bt_idx - 1) : ~FailingPair(bt_pairs[p])
          /\ (bt_pc = "done" /\ \E p \in 1..Len(bt_pairs) : FailingPair(bt_pairs[p]))
             => bt_result.tag = "Err")
    /\ [][bt_idx' # bt_idx
           => /\ bt_idx' = bt_idx + 1
              /\ Len(bt_out) = bt_idx
              /\ ps_wait_cs = None
              /\ enum_i' = 0
              /\ filter_f' = 1
              /\ bt_cur' = << >>
              /\ ps_n' = bt_pairs[bt_idx'][1]]_vars

\* Two equal pairs with a chain of three have both been answered with the
\* same two elements.
C28_Witness ==
    /\ bt_pairs = << << 3, NULL_HASH >>, << 3, NULL_HASH >> >>
    /\ bt_result.tag = "Ok"
    /\ bt_result.lists = << << 2, 1 >>, << 2, 1 >> >>

(***************************************************************************)
(* C29. As stated: run_blobimport returns only after the iothread has      *)
(* ended, and when it returns Ok every entry sent has been taken by the    *)
(* iothread and written or skipped as a repeated key.                      *)
(***************************************************************************)
\* run_blobimport has returned (the main thread has not panicked).
Returned == im_pc = "done" /\ im_result # Panic

\* Every entry sent has been taken, and saved, put, or skipped as a repeated key.
AllWritten ==
    /\ im_sent = Len(im_entries)
    /\ io_taken = im_entries
    /\ chan = << >>
    /\ io_queue = << >>
    /\ \A j \in 1..Len(io_taken) :
          IF io_taken[j].kind = "Changeset"
          THEN \E o \in 1..Len(io_ops) :
                  io_ops[o].kind = "save" /\ io_ops[o].key = io_taken[j].bcs
          ELSE \E o \in 1..Len(io_ops) :
                  io_ops[o].kind = "put" /\ io_ops[o].key = io_taken[j].key

C29_Original ==
    /\ Returned => io_pc \in {"unborn", "done"}
    /\ im_result = Ok => AllWritten

\* C29 as the code has it: every return that follows the conversion comes
\* after the join of the iothread, and so does every Ok; the return on a
\* failed open_repo does not wait for the iothread, which has been sent
\* nothing. The iothread ends with Ok only when the sender is gone, the
\* channel is drained and every operation has succeeded; it ends at the
\* first failure it sees, leaving the rest; once the sender is gone it
\* always ends.
C29_JoinThenReturn ==
    /\ [](/\ (Returned /\ io_pc \notin {"unborn", "done"})
             => /\ im_result = Err("repo")
                /\ im_res = Running
          /\ (im_result = Err("repo") \/ im_result = Err("headstore"))
             => im_sent = 0 /\ io_taken = << >>
          /\ (Returned /\ im_res # Running) => io_pc = "done"
          /\ im_result = Ok => io_pc = "done" /\ io_result = Ok /\ AllWritten
          /\ (io_pc = "done" /\ io_result = Ok)
             => /\ ~sender_alive
                /\ io_stream_done
                /\ chan = << >>
                /\ io_queue = << >>
                /\ io_taken = SubSeq(im_entries, 1, im_sent)
          /\ (io_pc = "done" /\ io_result.tag = "Err")
             => im_failed \cap {"blobstore", "put", "save"} # {})
    /\ [][(Len(io_queue') < Len(io_queue) /\ io_pc' = "running")
           => \E i \in 1..Len(io_queue) :
                 /\ io_queue[i].st = "ok"
                 /\ io_queue' = RemoveAt(io_queue, i)]_vars
    /\ (~sender_alive) ~> (io_pc \in {"unborn", "done"} \/ im_exit # None)

\* The conversion has sent three entries and returned; the iothread has
\* drained them and ended, and only then has run_blobimport returned Ok.
C29_Witness ==
    /\ im_result = Ok
    /\ io_pc = "done"
    /\ Len(im_entries) = 3
    /\ io_taken = im_entries
    /\ Len(io_ops) >= 2
    /\ channel_size = 1

====
